---- MODULE Spec2Model ----
(***************************************************************************)
(* A model of the CoCo event-coordination pipeline (file watcher and       *)
(* debouncer, dispatcher, analysis worker, UI event handler) and of the    *)
(* session recorder that observes it.                                      *)
(*                                                                         *)
(* An Option<T> is modelled as a sequence of length 0 (None) or 1 (Some).  *)
(* A uuid is modelled by a fresh number: the n-th AiRequest, Thought or    *)
(* SessionEvent created has id n.  A String                                *)
(* holding file content is modelled by its byte length.  Time is in        *)
(* milliseconds.                                                           *)
(***************************************************************************)
EXTENDS Integers, Sequences, FiniteSets, TLC

VARIABLES
    \* ---- watcher/monitor.rs : FileWatcher --------------------------------
    now,            \* the last reading of the monotonic clock (Instant::now)
    last_events,    \* FileWatcher.last_events : HashMap<PathBuf, Instant>
    w_pending,      \* the FileEvent event_tx.send(..).await is blocked on
    notify_log,     \* history: every notification processed and its outcome
    w_running,      \* FileWatcher.running : bool (the watcher's own flag)
    w_pc,           \* FileWatcher::run's event loop: "run", "done"
    \* ---- app.rs : channels ------------------------------------------------
    file_q,         \* mpsc::channel(5)  file_tx / file_rx
    ai_q,           \* mpsc::channel(5)  ai_tx / ai_rx
    ui_q,           \* mpsc::channel(10) ui_tx / ui_rx
    \* ---- app.rs : shared state --------------------------------------------
    current_file,   \* App.current_file : Option<String>
    current_code,   \* App.current_code : String
    file_cache,     \* App.file_cache : HashMap<String, String>
    ai_thoughts,    \* App.ai_thoughts : Vec<Thought>
    mode,           \* App.mode : ViewMode
    running,        \* App.running : bool
    is_recording,   \* App.is_recording : bool
    session_recorder, \* App.session_recorder : Option<SessionRecorder>
    disk,           \* the persisted session artifact (file_path), Option
    \* ---- app.rs : tasks ---------------------------------------------------
    d_pc,           \* handle_file_events: "recv", "send", "done"
    d_pending,      \* the AiRequest ai_tx.send(..).await is blocked on
    cache_guard,    \* `cache`, the guard of file_cache, is alive (locked)
    a_pc,           \* handle_ai_requests: "recv", "attempt", "sleep", "done"
    a_req,          \* the AiRequest being processed, Option
    a_attempt,      \* make_request's loop variable `attempt`
    u_pc,           \* handle_ui_events: "recv", "done"
    k_pc,           \* UI::run / handle_key_event: "poll", "keyrec", "done"
    k_key,          \* the key whose KeyPressed event is still to be sent
    k_count,        \* number of keys read so far
    next_id,        \* source of fresh uuids for SessionEvents
    \* ---- history ----------------------------------------------------------
    published,      \* FileEvents put on the FileEventBus, in order
    consumed,       \* FileEvents the dispatcher has received, in order
    enqueued,       \* AiRequests put on the AnalysisQueue, in order
    attempt_hist,   \* per dequeued request: outcomes of send_request, sleeps
    appended,       \* every Thought ever appended to ai_thoughts, in order
    toggled,        \* number of ToggleMode events the handler has consumed
    \* ---- session/replay.rs : SessionPlayer ---------------------------------
    pl_pc,          \* play(): "idle", "playing", "waiting", "completed"
    pl_session,     \* SessionPlayer.session.events
    pl_options,     \* SessionPlayer.options : PlaybackOptions
    pl_current_event_index, \* SessionPlayer.current_event_index
    pl_events_to_play,      \* play(): events_to_play
    pl_index,       \* play(): the loop's `index`
    pl_log,         \* history: every event rendered and the delay slept
    \* ---- session/mod.rs : the sessions directory -------------------------
    ls_dir,         \* the entries of the sessions directory, in read_dir order
    ls_out,         \* what list_sessions() returned last, Option
    ls_loaded,      \* what load_session(id) returned last: [id, result], Option
    \* ---- ui/mod.rs : UI::gather_app_data ---------------------------------
    r_pc,           \* gather_app_data: the field read next, "file" or "code"
    r_file,         \* AppData.current_file as read
    r_code,         \* AppData.current_code as read
    \* ---- the Mutex guards of App's fields --------------------------------
    holder,         \* per lock: the task whose guard is alive, or "free"
    lk_pc           \* per task: its path through the loop body and position

watcherVars  == <<now, last_events, w_pending, notify_log, published,
                  w_running, w_pc>>
dispatchVars == <<current_file, current_code, file_cache, cache_guard, d_pc,
                  d_pending,
                  consumed, enqueued>>
workerVars   == <<a_pc, a_req, a_attempt, attempt_hist>>
uiVars       == <<ui_q, mode, u_pc, k_pc, k_key, k_count, toggled>>
recVars      == <<is_recording, session_recorder, disk>>
playerVars   == <<pl_pc, pl_session, pl_options, pl_current_event_index,
                  pl_events_to_play, pl_index, pl_log>>
listVars     == <<ls_dir, ls_out, ls_loaded>>
fineVars     == <<r_pc, r_file, r_code, holder, lk_pc>>
vars == <<watcherVars, dispatchVars, workerVars, uiVars, recVars, playerVars,
          listVars, fineVars,
          file_q, ai_q, ai_thoughts, appended, running, next_id>>

None == <<>>
Some(x) == <<x>>
IsSome(o) == o # <<>>
Unwrap(o) == o[1]

\* ------------------------------------------------------------------------
\* Program constants
\* ------------------------------------------------------------------------
FileBusCap == 5
AiQueueCap == 5
UiBusCap == 10
DebounceDelay == 300
MaxFileSize == 8192
SizeThreshold == 5000
CacheLimit == 3
ThoughtLimit == 5
MaxRetries == 3
RetryDelay == 1000
DefaultAutoSaveInterval == 10
DefaultMaxEvents == 10000
DefaultMaxDelayMs == 5000

\* ------------------------------------------------------------------------
\* Bounds of the model
\* ------------------------------------------------------------------------
MaxNotifs == 7
MaxBurst == 4
MaxChanges == 5
MaxRequests == 2
MaxSections == 3
MaxAdds == 1
MaxKeys == 6
MaxRecorded == 5
MaxMaxEvents == 3
MaxPlayed == 2
MaxProbes == 3
MaxFiles == 3

\* ------------------------------------------------------------------------
\* Small helpers on sequences and maps
\* ------------------------------------------------------------------------
Max(a, b) == IF a >= b THEN a ELSE b
Min(a, b) == IF a <= b THEN a ELSE b

\* Vec::drain(0..n): the vector without its first n elements.
Drain(s, n) == SubSeq(s, n + 1, Len(s))

LastN(s, n) == Drain(s, Max(0, Len(s) - n))

\* HashMap::insert
MapInsert(m, k, v) == [x \in DOMAIN m \cup {k} |-> IF x = k THEN v ELSE m[x]]

EmptyMap == [x \in {} |-> 0]

\* Mutant: the item is put at the head of the queue.
SendFront(q, item) == <<item>> \o q

\* mpsc::Sender::send into a channel with room: the item joins the tail of
\* the queue (Receiver::recv takes the head).
Send(q, item) == Append(q, item)

\* ------------------------------------------------------------------------
\* watcher/monitor.rs : paths, the allow-list and reading a file
\* ------------------------------------------------------------------------
\* A path is [dir, stem, ext]: its directory part, the file name up to the
\* extension, and the extension ("" when Path::extension() is None).
Path(dir, stem, ext) == [dir |-> dir, stem |-> stem, ext |-> ext]

\* File names that start with '.'.
DotStems == {".hidden", ".env"}

\* Directory parts whose lower-cased text contains one of skip_patterns.
SkipDirs == {"target/debug/", "node_modules/", ".git/", "src/build/"}

SkipExtensions ==
    {"tmp", "temp", "bak", "swp", "swo", "log", "lock", "pid", "pyc", "pyo",
     "class", "o", "so", "dylib", "dll", "exe", "min.js", "min.css"}

SupportedExtensions ==
    {"rs", "py", "js", "ts", "jsx", "tsx", "go", "java", "c", "cpp", "cc",
     "cxx", "h", "hpp", "cs", "rb", "php", "swift", "kt", "scala", "clj",
     "ex", "exs", "hs", "ml", "f", "f90", "lua", "r", "m", "mm", "dart",
     "elm", "nim", "zig", "v", "cr"}

CodeFiles ==
    {"Makefile", "Dockerfile", "Jenkinsfile", "Vagrantfile", "Rakefile",
     "Gemfile", "Podfile", "CMakeLists.txt"}

ShouldProcessFile(p) ==
    IF p.stem \in DotStems THEN FALSE
    ELSE IF p.dir \in SkipDirs THEN FALSE
    ELSE IF p.ext # "" /\ p.ext \in SkipExtensions THEN FALSE
    ELSE IF p.ext # "" THEN p.ext \in SupportedExtensions
    ELSE p.stem \in CodeFiles

\* The file as the watcher finds it: [exists, len, binary].
File(exists, len, binary) == [exists |-> exists, len |-> len, binary |-> binary]

\* read_file_content: None stands for Err(..).
ReadFileContent(f) ==
    IF ~f.exists THEN None
    ELSE IF f.len > MaxFileSize THEN None
    ELSE IF f.binary THEN None
    ELSE Some([len |-> f.len])

\* The debounce test of process_notify_event: TRUE when the notification
\* is dropped.
Debounced(p, t) ==
    /\ p \in DOMAIN last_events
    /\ t - last_events[p] < DebounceDelay

\* Mutant: a dropped notification moves the window too.
LastEventsAfterAlways(p, t) == MapInsert(last_events, p, t)

\* last_events after the debounce block, for a path that passed
\* should_process_file.
LastEventsAfter(p, t) ==
    IF Debounced(p, t) THEN last_events ELSE MapInsert(last_events, p, t)

\* process_notify_event for an event with the single path p, the clock
\* reading t at `Instant::now()`, and the file found in state f.  When the
\* FileEventBus is full the task stays suspended in send (w_pending).
ProcessNotifyEvent(p, t, f) ==
    /\ w_pc = "run"
    /\ w_running
    /\ w_pending = None
    /\ Len(notify_log) < MaxNotifs
    /\ t >= now
    /\ now' = t
    /\ LET skip == ~ShouldProcessFile(p)
           dropped == ~skip /\ Debounced(p, t)
           content == ReadFileContent(f)
           emit == ~skip /\ ~dropped /\ IsSome(content)
           ev == [path |-> p, content |-> Unwrap(content), timestamp |-> t]
           outcome == IF skip THEN "skipped"
                      ELSE IF dropped THEN "debounced"
                      ELSE IF emit THEN "emitted" ELSE "read_failed"
       IN /\ last_events' = IF skip THEN last_events ELSE LastEventsAfter(p, t)
          /\ notify_log' = Append(notify_log,
                [path |-> p, t |-> t, readable |-> IsSome(content),
                 outcome |-> outcome])
          /\ IF emit /\ Len(file_q) < FileBusCap
               THEN /\ file_q' = Send(file_q, ev)
                    /\ published' = Append(published, ev)
                    /\ w_pending' = None
               ELSE /\ w_pending' = IF emit THEN Some(ev) ELSE None
                    /\ UNCHANGED <<file_q, published>>
    /\ UNCHANGED <<playerVars, listVars, fineVars, w_running, w_pc, dispatchVars, workerVars,
                   uiVars, recVars, ai_q,
                   ai_thoughts, appended, running, next_id>>

\* Mutant: the blocked send gives up and the event is lost.
WatcherSendDrops ==
    /\ IsSome(w_pending)
    /\ Len(file_q) < FileBusCap
    /\ w_pending' = None
    /\ UNCHANGED <<playerVars, listVars, fineVars, w_running, w_pc, file_q, published,
                   now, last_events, notify_log, dispatchVars, workerVars,
                   uiVars, recVars, ai_q, ai_thoughts, appended, running,
                   next_id>>

\* event_tx.send(file_event).await completes once the bus has room.
WatcherSend ==
    /\ IsSome(w_pending)
    /\ Len(file_q) < FileBusCap
    /\ file_q' = Send(file_q, Unwrap(w_pending))
    /\ published' = Append(published, Unwrap(w_pending))
    /\ w_pending' = None
    /\ UNCHANGED <<playerVars, listVars, fineVars, w_running, w_pc,
                   now, last_events, notify_log, dispatchVars, workerVars,
                   uiVars, recVars, ai_q, ai_thoughts, appended, running,
                   next_id>>

\* `while *running.lock().await` finds the watcher's flag false (the
\* select! wakes every 100 ms to test it): the event loop ends.
WatcherLoopExit ==
    /\ w_pc = "run"
    /\ w_pending = None
    /\ ~w_running
    /\ w_pc' = "done"
    /\ UNCHANGED <<playerVars, listVars, fineVars, now, last_events, w_pending, notify_log,
                   published, w_running, dispatchVars, workerVars, uiVars,
                   recVars, file_q, ai_q, ai_thoughts, appended, running,
                   next_id>>

\* ------------------------------------------------------------------------
\* session/recorder.rs : SessionRecorder
\* ------------------------------------------------------------------------
\* A SessionEvent: [id, event_type, path, size, count]; `count` stands for
\* the number its data carries (events_removed, thoughts_count).
\* `path` is an Option.
SessionEvent(id, type, path, size, count) ==
    [id |-> id, event_type |-> type, path |-> path, size |-> size,
     count |-> count]

\* Mutant: the factor 0.2 instead of 0.8.
KeepCountFifth(max) == max \div 5

\* (self.max_events as f32 * 0.8) as usize.  For the sizes modelled the f32
\* product truncates to floor(4 * max / 5).
KeepCount(max) == (max * 4) \div 5

\* Mutant: the new event is put in front of the list.
RecordEventInternalFront(r, ev) ==
    [r EXCEPT
       !.events = <<ev>> \o @,
       !.total_file_changes =
           IF ev.event_type = "FileChanged" THEN @ + 1 ELSE @,
       !.total_ai_requests =
           IF ev.event_type = "AiRequest" THEN @ + 1 ELSE @]

\* record_event_internal
RecordEventInternal(r, ev) ==
    LET kept == IF Len(r.events) >= r.max_events
                  THEN Drain(r.events, Len(r.events) - KeepCount(r.max_events))
                  ELSE r.events
    IN [r EXCEPT
          !.events = Append(kept, ev),
          !.total_file_changes =
              IF ev.event_type = "FileChanged" THEN @ + 1 ELSE @,
          !.total_ai_requests =
              IF ev.event_type = "AiRequest" THEN @ + 1 ELSE @]

\* The Session a recorder holds in memory (SessionRecorder.session).
SessionOf(r) ==
    [events |-> r.events, ended_at |-> r.ended_at,
     total_file_changes |-> r.total_file_changes,
     total_ai_requests |-> r.total_ai_requests,
     files_analyzed |-> r.files_analyzed]

\* serde's JSON form of an Option: null, or the value itself.
JsonOption(o) ==
    IF o = None THEN [null |-> TRUE, value |-> 0]
    ELSE [null |-> FALSE, value |-> Unwrap(o)]

OptionFromJson(j) == IF j.null THEN None ELSE Some(j.value)

\* #[derive(Serialize)] for SessionEvent: a JSON object, here the list of
\* its members <<id, event_type, file_path, size, count>>.
EventToJson(e) ==
    <<e.id, e.event_type, JsonOption(e.path), e.size, e.count>>

\* #[derive(Deserialize)] for SessionEvent.
EventFromJson(j) == SessionEvent(j[1], j[2], OptionFromJson(j[3]), j[4], j[5])

\* Mutant: the document is written without the session's last event.
SerializedStale(r) ==
    [valid |-> TRUE,
     events |-> [i \in 1..Len(r.events) - 1 |-> EventToJson(r.events[i])],
     ended_at |-> JsonOption(r.ended_at),
     total_file_changes |-> r.total_file_changes,
     total_ai_requests |-> r.total_ai_requests,
     files_analyzed |-> r.files_analyzed]

\* serde_json::to_string_pretty(&self.session): the JSON document.
Serialized(r) ==
    [valid |-> TRUE,
     events |-> [i \in 1..Len(r.events) |-> EventToJson(r.events[i])],
     ended_at |-> JsonOption(r.ended_at),
     total_file_changes |-> r.total_file_changes,
     total_ai_requests |-> r.total_ai_requests,
     files_analyzed |-> r.files_analyzed]

\* serde_json::from_str::<Session>(&content): None stands for Err(..).
Deserialized(doc) ==
    IF ~doc.valid THEN None
    ELSE Some([events |-> [i \in 1..Len(doc.events) |->
                             EventFromJson(doc.events[i])],
               ended_at |-> OptionFromJson(doc.ended_at),
               total_file_changes |-> doc.total_file_changes,
               total_ai_requests |-> doc.total_ai_requests,
               files_analyzed |-> doc.files_analyzed])

\* load_session(id) with d the file at the session's path, if any.
LoadSession(d) == IF d = None THEN None ELSE Deserialized(Unwrap(d))

Truncated ==
    [valid |-> FALSE, events |-> <<>>, ended_at |-> JsonOption(None),
     total_file_changes |-> 0, total_ai_requests |-> 0,
     files_analyzed |-> <<>>]

IoOutcomes == {"ok", "err", "err_truncated"}

\* Mutant: a failed write takes the newest event out of the session.
SaveRollsBack(r, d, io) ==
    IF io = "ok"
      THEN [rec |-> [r EXCEPT !.events_since_save = 0],
            disk |-> Some(Serialized(r)), ok |-> TRUE]
      ELSE [rec |-> [r EXCEPT !.events = SubSeq(@, 1, Len(@) - 1)],
            disk |-> d, ok |-> FALSE]

\* save(): [rec, disk, ok] after a write that ends as `io`.  A failed
\* std::fs::write leaves the old file or a truncated one.
Save(r, d, io) ==
    IF io = "ok"
      THEN [rec |-> [r EXCEPT !.events_since_save = 0],
            disk |-> Some(Serialized(r)), ok |-> TRUE]
      ELSE [rec |-> r,
            disk |-> IF io = "err_truncated" THEN Some(Truncated) ELSE d,
            ok |-> FALSE]

\* Mutant: the save waits for one event more than the interval.
RecordEventLate(r, d, ev, io) ==
    LET r1 == RecordEventInternal(r, ev)
        r2 == [r1 EXCEPT !.events_since_save = @ + 1]
    IN IF r2.events_since_save > r2.auto_save_interval
         THEN Save(r2, d, io)
         ELSE [rec |-> r2, disk |-> d, ok |-> TRUE]

\* record_event_with_context (record_event passes the default context)
RecordEvent(r, d, ev, io) ==
    LET r1 == RecordEventInternal(r, ev)
        r2 == [r1 EXCEPT !.events_since_save = @ + 1]
    IN IF r2.events_since_save >= r2.auto_save_interval
         THEN Save(r2, d, io)
         ELSE [rec |-> r2, disk |-> d, ok |-> TRUE]

\* record_file_change: note the file among files_analyzed, then record a
\* FileChanged event that carries the number of distinct files.
RecordFileChange(r, d, id, file_path, content_size, io) ==
    LET seen == \E i \in 1..Len(r.files_analyzed) :
                   r.files_analyzed[i] = file_path
        r1 == IF seen THEN r
              ELSE [r EXCEPT !.files_analyzed = Append(@, file_path)]
    IN RecordEvent(r1, d,
                   SessionEvent(id, "FileChanged", Some(file_path),
                                content_size, Len(r1.files_analyzed)), io)

\* SessionRecorder::new(): the SessionStarted event and the initial save.
NewRecorder ==
    [events |-> <<SessionEvent(0, "SessionStarted", None, 0, 0)>>,
     ended_at |-> None,
     total_file_changes |-> 0,
     total_ai_requests |-> 0,
     files_analyzed |-> <<>>,
     auto_save_interval |-> DefaultAutoSaveInterval,
     events_since_save |-> 0,
     max_events |-> DefaultMaxEvents]

\* Mutant: the task goes on without recording.
TapSkips(ev, io) ==
    [rec |-> session_recorder, disk |-> disk, next_id |-> next_id]

\* What a task does at `if *is_recording { if let Some(recorder) = .. }`:
\* [rec, disk, next_id] with rec the Option<SessionRecorder> afterwards.
Tap(ev, io) ==
    IF is_recording /\ IsSome(session_recorder)
      THEN LET res == RecordEvent(Unwrap(session_recorder), disk, ev, io)
           IN [rec |-> Some(res.rec), disk |-> res.disk,
               next_id |-> next_id + 1]
      ELSE [rec |-> session_recorder, disk |-> disk, next_id |-> next_id]

\* ------------------------------------------------------------------------
\* app.rs : handle_file_events (the Dispatcher)
\* ------------------------------------------------------------------------
\* Mutant: the loop ends after every iteration.
AfterIterationBreaks == "done"

\* The loop's last statement: `if !*app.running.lock().await { break; }`
AfterIteration == IF running THEN "recv" ELSE "done"

\* Mutant: on overflow one older entry is evicted instead of clearing.
CacheAfterEvictOne(cache, path_str, content) ==
    LET inserted == MapInsert(cache, path_str, content)
        victim == CHOOSE k \in DOMAIN inserted : k # path_str
    IN IF Cardinality(DOMAIN inserted) > CacheLimit
         THEN [k \in DOMAIN inserted \ {victim} |-> inserted[k]]
         ELSE inserted

\* file_cache after `cache.insert(..)` and the size check.
CacheAfter(cache, path_str, content) ==
    LET inserted == MapInsert(cache, path_str, content)
    IN IF Cardinality(DOMAIN inserted) > CacheLimit THEN EmptyMap ELSE inserted

\* Mutant: a file of exactly the threshold size passes the gate.
AnalyzableInclusive(content) == content.len <= SizeThreshold

\* The size gate: `event.content.len() < 5_000`.
Analyzable(content) == content.len < SizeThreshold

AiRequest(id, event) ==
    [id |-> id, request_type |-> "Analyze", content |-> event.content,
     file_path |-> Some(event.path), priority |-> "Medium"]

\* One iteration of handle_file_events from rx.recv() to ai_tx.send(): the
\* task stays suspended in send (d_pc = "send") while the queue is full.
\* `let mut cache = app.file_cache.lock().await` lives to the end of the
\* loop body, so the guard is dropped only when the iteration is over.
HandleFileEvent(io) ==
    /\ d_pc = "recv"
    /\ file_q # <<>>
    /\ LET event == Head(file_q)
           tap == Tap(SessionEvent(next_id, "FileChanged", Some(event.path),
                                   event.content.len, 0), io)
           req == AiRequest(Len(consumed) + 1, event)
       IN /\ file_q' = Tail(file_q)
          /\ consumed' = Append(consumed, event)
          /\ current_file' = Some(event.path)
          /\ current_code' = event.content
          /\ file_cache' = CacheAfter(file_cache, event.path, event.content)
          /\ session_recorder' = tap.rec
          /\ disk' = tap.disk
          /\ next_id' = tap.next_id
          /\ IF ~Analyzable(event.content)
               THEN /\ d_pc' = AfterIteration
                    /\ cache_guard' = FALSE
                    /\ UNCHANGED <<d_pending, ai_q, enqueued>>
               ELSE IF Len(ai_q) < AiQueueCap
               THEN /\ ai_q' = Send(ai_q, req)
                    /\ enqueued' = Append(enqueued, req)
                    /\ d_pc' = AfterIteration
                    /\ cache_guard' = FALSE
                    /\ UNCHANGED d_pending
               ELSE /\ d_pc' = "send"
                    /\ d_pending' = Some(req)
                    /\ cache_guard' = TRUE
                    /\ UNCHANGED <<ai_q, enqueued>>
    /\ UNCHANGED <<playerVars, listVars, fineVars, watcherVars, workerVars, uiVars, is_recording,
                   ai_thoughts, appended, running>>

\* ai_tx.send(ai_request).await completes once the queue has room.
DispatchSend ==
    /\ d_pc = "send"
    /\ Len(ai_q) < AiQueueCap
    /\ ai_q' = Send(ai_q, Unwrap(d_pending))
    /\ enqueued' = Append(enqueued, Unwrap(d_pending))
    /\ d_pending' = None
    /\ d_pc' = AfterIteration
    /\ cache_guard' = FALSE
    /\ UNCHANGED <<playerVars, listVars, fineVars, watcherVars, workerVars, uiVars, recVars, file_q,
                   current_file, current_code, file_cache, consumed,
                   ai_thoughts, appended, running, next_id>>

\* ------------------------------------------------------------------------
\* app.rs : handle_ai_requests, ai/claude.rs : make_request, analyze_code
\* ------------------------------------------------------------------------
Thought(id, type, confidence, file_path, req) ==
    [id |-> id, thought_type |-> type, confidence |-> confidence,
     file_path |-> file_path, req |-> req]

\* What a response section turns into: its thought type and its confidence
\* in hundredths.
SectionKinds ==
    {[thought_type |-> "Analyzing", confidence |-> 50],
     [thought_type |-> "Error", confidence |-> 30],
     [thought_type |-> "Warning", confidence |-> 70]}

Analyzing50 == [thought_type |-> "Analyzing", confidence |-> 50]
Error30 == [thought_type |-> "Error", confidence |-> 30]

Response(n, kind) == [n |-> n, kind |-> kind]

\* Successful responses, as n non-empty sections of one kind: an empty
\* one, a single section that reads as an error, and a long one.
Responses ==
    {Response(0, Analyzing50), Response(1, Error30),
     Response(MaxSections, Analyzing50)}

\* Mutant: no generic thought for a response without sections.
ParseResponseNoGeneric(resp, req, id0) ==
    [i \in 1..resp.n |->
        Thought(id0 + i - 1, resp.kind.thought_type, resp.kind.confidence,
                req.file_path, req.id)]

\* parse_response_to_thoughts: one Thought per non-empty section, or the
\* generic Analyzing thought with confidence 0.5 when there is none.
ParseResponseToThoughts(resp, req, id0) ==
    IF resp.n = 0
      THEN <<Thought(id0, "Analyzing", 50, req.file_path, req.id)>>
      ELSE [i \in 1..resp.n |->
               Thought(id0 + i - 1, resp.kind.thought_type,
                       resp.kind.confidence, req.file_path, req.id)]

\* str::to_lowercase on the words calculate_confidence looks for, as they
\* may be written in a response.
ToLowercase(w) ==
    CASE w = "MUST" -> "must"
      [] w = "Maybe" -> "maybe"
      [] OTHER -> w

\* A response section: the words it contains ("fence" is the mark of a
\* code block) and its length in bytes.
Sections ==
    [tokens : SUBSET {"should", "MUST", "might", "Maybe", "possibly", "fence"},
     len : {200, 201}]

\* Mutant: uncertain language is not counted.
CalculateConfidenceBold(content) ==
    LET content_lower == {ToLowercase(w) : w \in content.tokens}
        c1 == IF "should" \in content_lower \/ "must" \in content_lower
                THEN 50 + 20 ELSE 50
        c3 == IF "fence" \in content.tokens THEN c1 + 10 ELSE c1
        c4 == IF content.len > 200 THEN c3 + 10 ELSE c3
    IN IF c4 < 0 THEN 0 ELSE IF c4 > 100 THEN 100 ELSE c4

\* calculate_confidence, in hundredths.
CalculateConfidence(content) ==
    LET content_lower == {ToLowercase(w) : w \in content.tokens}
        c0 == 50
        c1 == IF "should" \in content_lower \/ "must" \in content_lower
                THEN c0 + 20 ELSE c0
        c2 == IF \/ "might" \in content_lower
                 \/ "maybe" \in content_lower
                 \/ "possibly" \in content_lower
                THEN c1 - 20 ELSE c1
        c3 == IF "fence" \in content.tokens THEN c2 + 10 ELSE c2
        c4 == IF content.len > 200 THEN c3 + 10 ELSE c3
    IN IF c4 < 0 THEN 0 ELSE IF c4 > 100 THEN 100 ELSE c4

\* The kind of a section of an Analyze response with none of the words
\* infer_thought_type looks for.
SectionKind(section) ==
    [thought_type |-> "Analyzing", confidence |-> CalculateConfidence(section)]

\* analyze_code's Err arm: the error thought it returns as Ok(vec![..]).
ErrorThought(req, id0) == Thought(id0, "Error", 0, req.file_path, req.id)

\* Mutant: the store is truncated to its first 5 instead of its last 5.
ExtendAndTruncate(store, thoughts) ==
    LET all == store \o thoughts
    IN IF Len(all) > ThoughtLimit THEN SubSeq(all, 1, ThoughtLimit) ELSE all

\* `ai_thoughts.extend(thoughts)` and the drain that keeps the last 5.
ExtendAndTrim(store, thoughts) ==
    LET all == store \o thoughts
    IN IF Len(all) > ThoughtLimit
         THEN Drain(all, Len(all) - ThoughtLimit)
         ELSE all

\* Mutant: off by one, a fourth attempt is made.
RetryAfterOneMore(attempt) == attempt < MaxRetries

\* `if attempt < self.max_retries - 1`: a sleep follows this failed attempt.
RetryAfter(attempt) == attempt < MaxRetries - 1

\* Mutant: the delay does not grow.
BackoffDelayFlat(attempt) == RetryDelay

\* `self.retry_delay * 2_u32.pow(attempt)`
BackoffDelay(attempt) == RetryDelay * (2 ^ attempt)

LastHist == attempt_hist[Len(attempt_hist)]

NoteAttempt(outcome) ==
    [attempt_hist EXCEPT ![Len(attempt_hist)].outcomes = Append(@, outcome)]

\* handle_ai_requests returns Err before its loop: the API key is not
\* configured or ClaudeClient::new fails.
WorkerStartFails ==
    /\ a_pc = "recv"
    /\ attempt_hist = <<>>
    /\ a_pc' = "done"
    /\ UNCHANGED <<playerVars, listVars, fineVars, watcherVars, dispatchVars, uiVars, recVars,
                   a_req, a_attempt, attempt_hist, file_q, ai_q, ai_thoughts,
                   appended, running, next_id>>

\* rx.recv() hands the worker the next request; make_request starts with
\* attempt = 0.
WorkerRecv ==
    /\ a_pc = "recv"
    /\ ai_q # <<>>
    /\ a_req' = Some(Head(ai_q))
    /\ ai_q' = Tail(ai_q)
    /\ a_attempt' = 0
    /\ a_pc' = "attempt"
    /\ attempt_hist' = Append(attempt_hist,
          [req |-> Head(ai_q).id, outcomes |-> <<>>, sleeps |-> <<>>,
           finished |-> FALSE])
    /\ UNCHANGED <<playerVars, listVars, fineVars,
                   watcherVars, dispatchVars, uiVars, recVars, file_q,
                   ai_thoughts, appended, running, next_id>>

\* The Ok(thoughts) arm of handle_ai_requests: extend, trim, record.
Deliver(thoughts, io) ==
    LET store == ExtendAndTrim(ai_thoughts, thoughts)
        tap == Tap(SessionEvent(next_id, "AiResponse", None, 0, Len(store)),
                   io)
    IN /\ ai_thoughts' = store
       /\ appended' = appended \o thoughts
       /\ session_recorder' = tap.rec
       /\ disk' = tap.disk
       /\ next_id' = tap.next_id
       /\ a_req' = None
       /\ a_pc' = AfterIteration

\* send_request succeeds with response resp: make_request returns it,
\* analyze_code parses it and the handler appends the thoughts.
WorkerAttemptOk(resp, io) ==
    /\ a_pc = "attempt"
    /\ attempt_hist' =
          [NoteAttempt("ok") EXCEPT ![Len(attempt_hist)].finished = TRUE]
    /\ Deliver(ParseResponseToThoughts(resp, Unwrap(a_req),
                                       Len(appended) + 1), io)
    /\ UNCHANGED <<playerVars, listVars, fineVars,
                   watcherVars, dispatchVars, uiVars, is_recording, file_q,
                   ai_q, a_attempt, running>>

\* send_request fails: sleep and retry, or after the last attempt return
\* the error, which analyze_code turns into one error thought.
WorkerAttemptErr(io) ==
    /\ a_pc = "attempt"
    /\ IF RetryAfter(a_attempt)
         THEN /\ a_pc' = "sleep"
              /\ attempt_hist' =
                    [NoteAttempt("err") EXCEPT
                       ![Len(attempt_hist)].sleeps =
                           Append(@, BackoffDelay(a_attempt))]
              /\ UNCHANGED <<a_req, ai_thoughts, appended, recVars, next_id>>
         ELSE /\ attempt_hist' =
                    [NoteAttempt("err") EXCEPT
                       ![Len(attempt_hist)].finished = TRUE]
              /\ Deliver(<<ErrorThought(Unwrap(a_req), Len(appended) + 1)>>,
                         io)
              /\ UNCHANGED is_recording
    /\ UNCHANGED <<playerVars, listVars, fineVars, watcherVars, dispatchVars, uiVars, file_q, ai_q,
                   a_attempt, running>>

\* sleep(delay).await is over: the for loop moves to the next attempt.
WorkerWake ==
    /\ a_pc = "sleep"
    /\ a_attempt' = a_attempt + 1
    /\ a_pc' = "attempt"
    /\ UNCHANGED <<playerVars, listVars, fineVars,
                   watcherVars, dispatchVars, uiVars, recVars, file_q, ai_q,
                   a_req, attempt_hist, ai_thoughts, appended, running,
                   next_id>>

\* `self.ai_thoughts.lock().await.push(thought)`
Pushed(store, thought) == Append(store, thought)

\* App::add_thought, called by a client of App (req 0: no request).
AddThought(kind) ==
    /\ Cardinality({i \in 1..Len(appended) : appended[i].req = 0}) < MaxAdds
    /\ LET thought == Thought(Len(appended) + 1, kind.thought_type,
                              kind.confidence, None, 0)
       IN /\ ai_thoughts' = Pushed(ai_thoughts, thought)
          /\ appended' = Append(appended, thought)
    /\ UNCHANGED <<playerVars, listVars, fineVars,
                   watcherVars, dispatchVars, workerVars, uiVars, recVars,
                   file_q, ai_q, running, next_id>>

\* ------------------------------------------------------------------------
\* ui/mod.rs : handle_key_event (the input loop's producer side)
\* ------------------------------------------------------------------------
UiEvent(type, key) == [event_type |-> type, key |-> key]

\* Mutant: a full queue drops its oldest event to take the new one.
TrySendEvicting(q, ev) ==
    IF Len(q) < UiBusCap THEN Append(q, ev) ELSE Append(Tail(q), ev)

\* `self.app.ui_tx.try_send(event)`: the queue afterwards.  A full queue
\* returns Err at once and the event is dropped.
TrySend(q, ev) == IF Len(q) < UiBusCap THEN Append(q, ev) ELSE q

\* The event a key is translated to before its KeyPressed event ("" for a
\* key with no binding).
KeyBinding(key) ==
    CASE key = "q" -> "Quit"
      [] key = "v" -> "ToggleMode"
      [] key = "c" -> "ClearThoughts"
      [] key = "y" -> "AcceptSuggestion"
      [] key = "r" -> "Refresh"
      [] OTHER -> ""

\* handle_key_event up to its first try_send.  'q' returns Ok(true) and the
\* UI loop breaks; a bound key sends its event and goes on to send the
\* KeyPressed event; any other key sends only the KeyPressed event.
KeyPress(key) ==
    /\ k_pc = "poll"
    /\ k_count < MaxKeys
    /\ LET b == KeyBinding(key)
       IN /\ ui_q' = TrySend(ui_q, IF b = "" THEN UiEvent("KeyPressed", key)
                                             ELSE UiEvent(b, ""))
          /\ k_pc' = IF b = "Quit" THEN "done"
                     ELSE IF b = "" THEN "poll" ELSE "keyrec"
          /\ k_key' = IF b \in {"Quit", ""} THEN "" ELSE key
    /\ k_count' = k_count + 1
    /\ UNCHANGED <<playerVars, listVars, fineVars,
                   watcherVars, dispatchVars, workerVars, recVars, mode, u_pc,
                   toggled, file_q, ai_q, ai_thoughts, appended, running,
                   next_id>>

\* The trailing `try_send(ui_event)` of handle_key_event (KeyPressed).
KeyRecord ==
    /\ k_pc = "keyrec"
    /\ ui_q' = TrySend(ui_q, UiEvent("KeyPressed", k_key))
    /\ k_pc' = "poll"
    /\ k_key' = ""
    /\ UNCHANGED <<playerVars, listVars, fineVars,
                   watcherVars, dispatchVars, workerVars, recVars, mode, u_pc,
                   k_count, toggled, file_q, ai_q, ai_thoughts, appended,
                   running, next_id>>

\* UI::run's `if !self.app.is_running().await { break; }`
UiLoopExit ==
    /\ k_pc = "poll"
    /\ ~running
    /\ k_pc' = "done"
    /\ UNCHANGED <<playerVars, listVars, fineVars,
                   watcherVars, dispatchVars, workerVars, recVars, ui_q, mode,
                   u_pc, k_key, k_count, toggled, file_q, ai_q, ai_thoughts, appended,
                   running, next_id>>

\* ------------------------------------------------------------------------
\* app.rs : handle_ui_events (the UiEventHandler)
\* ------------------------------------------------------------------------
\* Mutant: the Minimal arm is missing from the cycle.
NextModeShort(m) ==
    CASE m = "SideBySide" -> "ThoughtsOnly"
      [] m = "ThoughtsOnly" -> "Full"
      [] m = "Full" -> "SideBySide"
      [] m = "Minimal" -> "SideBySide"

NextMode(m) ==
    CASE m = "SideBySide" -> "ThoughtsOnly"
      [] m = "ThoughtsOnly" -> "Full"
      [] m = "Full" -> "Minimal"
      [] m = "Minimal" -> "SideBySide"

\* The view mode after the handler's match on the event type.
ModeAfter(m, type) == IF type = "ToggleMode" THEN NextMode(m) ELSE m

\* Mutant: ClearThoughts leaves the store as it is.
ThoughtsAfterKept(store, type) == store

\* `app.ai_thoughts.lock().await.clear()` in the ClearThoughts arm.
ThoughtsAfter(store, type) == IF type = "ClearThoughts" THEN <<>> ELSE store

\* One iteration of handle_ui_events.  Quit breaks out of the loop before
\* the event is recorded.
HandleUiEvent(io) ==
    /\ u_pc = "recv"
    /\ ui_q # <<>>
    /\ LET event == Head(ui_q)
           type == event.event_type
           tap == Tap(SessionEvent(next_id, "UiAction", None, 0, 0), io)
       IN /\ ui_q' = Tail(ui_q)
          /\ mode' = ModeAfter(mode, type)
          /\ toggled' = IF type = "ToggleMode" THEN toggled + 1 ELSE toggled
          /\ ai_thoughts' = ThoughtsAfter(ai_thoughts, type)
          /\ IF type = "Quit"
               THEN /\ running' = FALSE
                    /\ u_pc' = "done"
                    /\ UNCHANGED <<session_recorder, disk, next_id>>
               ELSE /\ session_recorder' = tap.rec
                    /\ disk' = tap.disk
                    /\ next_id' = tap.next_id
                    /\ u_pc' = AfterIteration
                    /\ UNCHANGED running
    /\ UNCHANGED <<playerVars, listVars, fineVars,
                   watcherVars, dispatchVars, workerVars, is_recording, k_pc,
                   k_key, k_count, file_q, ai_q, appended>>

\* ------------------------------------------------------------------------
\* app.rs : App::run after select!: a task has completed
\* ------------------------------------------------------------------------
Shutdown(io) ==
    /\ running
    /\ "done" \in {k_pc, d_pc, a_pc, u_pc}
    /\ running' = FALSE
    /\ IF IsSome(session_recorder)
         THEN LET res == Save(Unwrap(session_recorder), disk, io)
              IN /\ session_recorder' = Some(res.rec)
                 /\ disk' = res.disk
         ELSE UNCHANGED <<session_recorder, disk>>
    /\ UNCHANGED <<playerVars, listVars, fineVars, watcherVars, dispatchVars, workerVars, uiVars,
                   is_recording, file_q, ai_q, ai_thoughts, appended, next_id>>

\* ------------------------------------------------------------------------
\* session/recorder.rs : the recorder's public operations
\* ------------------------------------------------------------------------
Rec == Unwrap(session_recorder)

RecFrame ==
    UNCHANGED <<playerVars, listVars, fineVars,
                watcherVars, dispatchVars, workerVars, uiVars, is_recording,
                file_q, ai_q, ai_thoughts, appended, running>>

\* Event types a client records through record_event.
RecordedTypes == {"FileChanged", "AiRequest", "UiAction"}

RecRecordEvent(type, io) ==
    /\ IsSome(session_recorder)
    /\ next_id < MaxRecorded
    /\ LET res == RecordEvent(Rec, disk,
                              SessionEvent(next_id, type, None, 0, 0), io)
       IN /\ session_recorder' = Some(res.rec)
          /\ disk' = res.disk
    /\ next_id' = next_id + 1
    /\ RecFrame

RecRecordFileChange(file_path, io) ==
    /\ IsSome(session_recorder)
    /\ next_id < MaxRecorded
    /\ LET res == RecordFileChange(Rec, disk, next_id, file_path, 120, io)
       IN /\ session_recorder' = Some(res.rec)
          /\ disk' = res.disk
    /\ next_id' = next_id + 1
    /\ RecFrame

\* Mutant: the session is closed in memory but the final save is left out.
EndSessionUnsaved(r, d, id, t, io) ==
    LET r1 == [r EXCEPT !.ended_at = Some(t)]
        r2 == RecordEventInternal(r1,
                 SessionEvent(id, "SessionEnded", None, 0, Len(r1.events)))
    IN [rec |-> r2, disk |-> d, ok |-> TRUE]

\* end_session: stamp ended_at, record SessionEnded, final save.
EndSession(r, d, id, t, io) ==
    LET r1 == [r EXCEPT !.ended_at = Some(t)]
        r2 == RecordEventInternal(r1,
                 SessionEvent(id, "SessionEnded", None, 0, Len(r1.events)))
    IN Save(r2, d, io)

RecEndSession(io) ==
    /\ IsSome(session_recorder)
    /\ next_id < MaxRecorded
    /\ LET res == EndSession(Rec, disk, next_id, now, io)
       IN /\ session_recorder' = Some(res.rec)
          /\ disk' = res.disk
    /\ next_id' = next_id + 1
    /\ RecFrame

SetMaxEvents(r, max) == [r EXCEPT !.max_events = max]

RecSetMaxEvents(max) ==
    /\ IsSome(session_recorder)
    /\ session_recorder' = Some(SetMaxEvents(Rec, max))
    /\ UNCHANGED <<disk, next_id>>
    /\ RecFrame

SetAutoSaveInterval(r, n) == [r EXCEPT !.auto_save_interval = n]

RecSetAutoSaveInterval(n) ==
    /\ IsSome(session_recorder)
    /\ session_recorder' = Some(SetAutoSaveInterval(Rec, n))
    /\ UNCHANGED <<disk, next_id>>
    /\ RecFrame

\* compress_old_events: keep the most recent events behind one marker.
CompressOldEvents(r, keep_recent_count, id) ==
    IF Len(r.events) <= keep_recent_count THEN r
    ELSE LET start_index == Len(r.events) - keep_recent_count
         IN [r EXCEPT !.events =
               <<SessionEvent(id, "ConfigChange", None, 0, start_index)>>
                 \o Drain(r.events, start_index)]

RecCompressOldEvents(keep_recent_count) ==
    /\ IsSome(session_recorder)
    /\ next_id < MaxRecorded
    /\ session_recorder' =
          Some(CompressOldEvents(Rec, keep_recent_count, next_id))
    /\ next_id' = next_id + 1
    /\ UNCHANGED disk
    /\ RecFrame

RecSave(io) ==
    /\ IsSome(session_recorder)
    /\ LET res == Save(Rec, disk, io)
       IN /\ session_recorder' = Some(res.rec)
          /\ disk' = res.disk
    /\ UNCHANGED next_id
    /\ RecFrame

\* impl Drop: end the session unless it was ended; the recorder is gone.
RecDrop(io) ==
    /\ IsSome(session_recorder)
    /\ IF Rec.ended_at = None
         THEN /\ disk' = EndSession(Rec, disk, next_id, now, io).disk
              /\ next_id' = next_id + 1
         ELSE UNCHANGED <<disk, next_id>>
    /\ session_recorder' = None
    /\ RecFrame

\* ------------------------------------------------------------------------
\* session/replay.rs : SessionPlayer
\* ------------------------------------------------------------------------
\* A session event as the player sees it; `offset` is its timestamp minus
\* Session.started_at in milliseconds, `path` its context.file_path as the
\* sequence of the path's components.
PlayedEvent(id, type, path, offset) ==
    [id |-> id, event_type |-> type, path |-> path, offset |-> offset]

\* A speed multiplier num/den (an f64 in the code).
Speed(num, den) == [num |-> num, den |-> den]

\* PlaybackOptions::default()
DefaultOptions ==
    [speed_multiplier |-> Speed(1, 1),
     skip_events |-> {},
     only_events |-> None,
     max_delay_ms |-> Some(DefaultMaxDelayMs),
     interactive |-> FALSE,
     filter_file_path |-> None,
     start_from_event |-> None,
     end_at_event |-> None]

\* SessionPlayer::new before a session is handed to it.
PlayerNew ==
    /\ pl_pc = "idle"
    /\ pl_session = <<>>
    /\ pl_options = DefaultOptions
    /\ pl_current_event_index = 0
    /\ pl_events_to_play = <<>>
    /\ pl_index = 0
    /\ pl_log = <<>>

\* str::contains on paths: pat is a contiguous run of path's components.
PathContains(path, pat) ==
    \E i \in 0..Len(path) - Len(pat) :
       \A k \in 1..Len(pat) : path[i + k] = pat[k]

\* The closure of filter_events.
PassesFilter(o, event) ==
    /\ event.event_type \notin o.skip_events
    /\ IsSome(o.only_events) => event.event_type \in Unwrap(o.only_events)
    /\ IsSome(o.filter_file_path) =>
          /\ IsSome(event.path)
          /\ PathContains(Unwrap(event.path), Unwrap(o.filter_file_path))

\* filter_events
FilterEvents(events, o) == SelectSeq(events, LAMBDA e : PassesFilter(o, e))

\* Mutant: the delay is not divided by the speed multiplier.
TargetDelayMsUnscaled(offset, speed) == IF offset < 0 THEN 0 ELSE offset

\* `(event_offset.num_milliseconds() as f64 / speed_multiplier) as u64` for
\* a positive multiplier: the cast truncates and takes a negative to 0.
TargetDelayMs(offset, speed) ==
    IF offset < 0 THEN 0 ELSE (offset * speed.den) \div speed.num

\* The duration play_event sleeps before it displays the event (0: no
\* sleep).  Without a max_delay_ms there is no sleep at all.
SleptDelay(offset, o) ==
    IF o.max_delay_ms = None THEN 0
    ELSE LET actual_delay == Min(TargetDelayMs(offset, o.speed_multiplier),
                                 Unwrap(o.max_delay_ms))
         IN IF actual_delay > 0 /\ ~o.interactive THEN actual_delay ELSE 0

\* Where the loop of play() stands with `index` events behind it.
PlayerAt(index, queue, o) ==
    IF index >= Len(queue) THEN "completed"
    ELSE IF IsSome(o.end_at_event) /\ index >= Unwrap(o.end_at_event)
      THEN "completed"
    ELSE "playing"

\* SessionPlayer::new(session).with_options(options) and play() up to its
\* loop.
Play(events, options) ==
    /\ pl_pc = "idle"
    /\ pl_session' = events
    /\ pl_options' = options
    /\ pl_log' = pl_log
    /\ pl_index' = 0
    /\ IF events = <<>>
         THEN /\ pl_pc' = "completed"
              /\ UNCHANGED <<pl_current_event_index, pl_events_to_play>>
         ELSE /\ pl_current_event_index' =
                    IF IsSome(options.start_from_event)
                      THEN Min(Unwrap(options.start_from_event), Len(events))
                      ELSE pl_current_event_index
              /\ pl_events_to_play' = FilterEvents(events, options)
              /\ pl_pc' = PlayerAt(0, FilterEvents(events, options), options)
    /\ UNCHANGED <<watcherVars, dispatchVars, workerVars, uiVars, recVars,
                   listVars, fineVars,
                   file_q, ai_q, ai_thoughts, appended, running, next_id>>

\* Mutant: the event played is taken out of the player's session.
PlayEventDrains ==
    /\ pl_pc = "playing"
    /\ LET event == pl_events_to_play[pl_index + 1]
       IN /\ pl_log' = Append(pl_log,
                [event |-> event, index |-> pl_index,
                 slept |-> SleptDelay(event.offset, pl_options)])
          /\ pl_session' = SelectSeq(pl_session, LAMBDA e : e # event)
    /\ IF pl_options.interactive
         THEN /\ pl_pc' = "waiting"
              /\ UNCHANGED pl_index
         ELSE /\ pl_index' = pl_index + 1
              /\ pl_pc' = PlayerAt(pl_index + 1, pl_events_to_play, pl_options)
    /\ UNCHANGED <<pl_options, pl_current_event_index, pl_events_to_play>>
    /\ UNCHANGED <<watcherVars, dispatchVars, workerVars, uiVars, recVars,
                   listVars, fineVars,
                   file_q, ai_q, ai_thoughts, appended, running, next_id>>

\* One pass of the loop of play(): play_event sleeps and displays the
\* event; in interactive mode the player then waits for the operator.
PlayEvent ==
    /\ pl_pc = "playing"
    /\ LET event == pl_events_to_play[pl_index + 1]
       IN pl_log' = Append(pl_log,
             [event |-> event, index |-> pl_index,
              slept |-> SleptDelay(event.offset, pl_options)])
    /\ IF pl_options.interactive
         THEN /\ pl_pc' = "waiting"
              /\ UNCHANGED pl_index
         ELSE /\ pl_index' = pl_index + 1
              /\ pl_pc' = PlayerAt(pl_index + 1, pl_events_to_play, pl_options)
    /\ UNCHANGED <<pl_session, pl_options, pl_current_event_index,
                   pl_events_to_play>>
    /\ UNCHANGED <<watcherVars, dispatchVars, workerVars, uiVars, recVars,
                   listVars, fineVars,
                   file_q, ai_q, ai_thoughts, appended, running, next_id>>

\* wait_for_user_input returns: `q` breaks out of the loop, any other line
\* moves on to the next event.
PlayerInput(quit) ==
    /\ pl_pc = "waiting"
    /\ pl_index' = pl_index + 1
    /\ pl_pc' = IF quit THEN "completed"
                ELSE PlayerAt(pl_index + 1, pl_events_to_play, pl_options)
    /\ UNCHANGED <<pl_session, pl_options, pl_current_event_index,
                   pl_events_to_play, pl_log>>
    /\ UNCHANGED <<watcherVars, dispatchVars, workerVars, uiVars, recVars,
                   listVars, fineVars,
                   file_q, ai_q, ai_thoughts, appended, running, next_id>>

\* ------------------------------------------------------------------------
\* session/mod.rs : list_sessions, load_session
\* ------------------------------------------------------------------------
\* An entry of the sessions directory: the session id in its name, its
\* extension, whether read_to_string succeeds, the started_at of the
\* session it holds and the JSON document in it.
SessionFile(id, ext, readable, started_at, doc) ==
    [id |-> id, ext |-> ext, readable |-> readable,
     started_at |-> started_at, doc |-> doc]

\* What list_sessions and load_session make of one file: its Session (id,
\* started_at and the rest), None when the read or the parse fails.
ReadSession(f) ==
    LET session == LoadSession(IF f.readable THEN Some(f.doc) ELSE None)
    IN IF session = None THEN None
       ELSE Some([id |-> f.id, started_at |-> f.started_at,
                  session |-> Unwrap(session)])

\* The loop of list_sessions: the sessions of the .json entries that read
\* and parse, in directory order.
RECURSIVE ParsedSessions(_)
ParsedSessions(dir) ==
    IF dir = <<>> THEN <<>>
    ELSE LET f == Head(dir)
             rest == ParsedSessions(Tail(dir))
         IN IF f.ext = "json" /\ IsSome(ReadSession(f))
              THEN <<Unwrap(ReadSession(f))>> \o rest
              ELSE rest

\* sessions.sort_by(|a, b| b.started_at.cmp(&a.started_at)): a stable sort,
\* newest first.
RECURSIVE SortNewestFirst(_)
SortNewestFirst(sessions) ==
    IF sessions = <<>> THEN <<>>
    ELSE LET x == Head(sessions)
             rest == SortNewestFirst(Tail(sessions))
             k == Cardinality({i \in 1..Len(rest) :
                                 rest[i].started_at > x.started_at})
         IN SubSeq(rest, 1, k) \o <<x>> \o SubSeq(rest, k + 1, Len(rest))

\* Mutant: the sessions are returned in directory order.
ListSessionsUnsorted(dir) == ParsedSessions(dir)

\* list_sessions() over an existing sessions directory.
ListSessions(dir) == SortNewestFirst(ParsedSessions(dir))

\* The file named <id>.json of the directory, if there is one.
FileOf(dir, id) ==
    LET hits == SelectSeq(dir, LAMBDA f : f.id = id /\ f.ext = "json")
    IN IF hits = <<>> THEN None ELSE Some(hits[1])

\* load_session(id): None stands for Err(..).
LoadSessionById(dir, id) ==
    IF FileOf(dir, id) = None THEN None
    ELSE ReadSession(Unwrap(FileOf(dir, id)))

ListNew ==
    /\ ls_dir = <<>>
    /\ ls_out = None
    /\ ls_loaded = None

\* A file appears in the sessions directory (a recorder's save, or any
\* other program).
FileAppears(f) ==
    /\ Len(ls_dir) < MaxFiles
    /\ f.id = Len(ls_dir) + 1
    /\ ls_dir' = Append(ls_dir, f)
    /\ UNCHANGED <<ls_out, ls_loaded>>
    /\ UNCHANGED <<watcherVars, dispatchVars, workerVars, uiVars, recVars,
                   playerVars, fineVars, file_q, ai_q, ai_thoughts, appended, running,
                   next_id>>

\* `coco sessions`: list_sessions().
ListSessionsCall ==
    /\ ls_out' = Some(ListSessions(ls_dir))
    /\ UNCHANGED <<ls_dir, ls_loaded>>
    /\ UNCHANGED <<watcherVars, dispatchVars, workerVars, uiVars, recVars,
                   playerVars, fineVars, file_q, ai_q, ai_thoughts, appended, running,
                   next_id>>

\* `coco replay <id>`: load_session(id).
LoadSessionCall(id) ==
    /\ ls_loaded' = Some([id |-> id, result |-> LoadSessionById(ls_dir, id)])
    /\ UNCHANGED <<ls_dir, ls_out>>
    /\ UNCHANGED <<watcherVars, dispatchVars, workerVars, uiVars, recVars,
                   playerVars, fineVars, file_q, ai_q, ai_thoughts, appended, running,
                   next_id>>

\* ------------------------------------------------------------------------
\* ui/mod.rs : UI::gather_app_data (the render loop)
\* ------------------------------------------------------------------------
\* Nothing has been gathered yet.
GatherNew ==
    /\ r_pc = "file"
    /\ r_file = None
    /\ r_code = [len |-> 0]

\* `current_file: self.app.get_current_file().await`: the lock is taken,
\* the value cloned and the lock released.
GetCurrentFile ==
    /\ r_pc = "file"
    /\ r_file' = current_file
    /\ r_pc' = "code"
    /\ UNCHANGED <<r_code, holder, lk_pc>>
    /\ UNCHANGED <<watcherVars, dispatchVars, workerVars, uiVars, recVars,
                   playerVars, listVars, file_q, ai_q, ai_thoughts, appended,
                   running, next_id>>

\* `current_code: self.app.get_current_code().await`, under a second lock;
\* the AppData handed to the renderer holds r_file and r_code.
GetCurrentCode ==
    /\ r_pc = "code"
    /\ r_code' = current_code
    /\ r_pc' = "file"
    /\ UNCHANGED <<r_file, holder, lk_pc>>
    /\ UNCHANGED <<watcherVars, dispatchVars, workerVars, uiVars, recVars,
                   playerVars, listVars, file_q, ai_q, ai_thoughts, appended,
                   running, next_id>>

\* ------------------------------------------------------------------------
\* app.rs, ui/mod.rs : the Mutex guards the tasks take and drop
\* ------------------------------------------------------------------------
Locks ==
    {"current_file", "current_code", "file_cache", "ai_thoughts", "mode",
     "is_recording", "session_recorder", "running"}

Tasks == {"dispatcher", "worker", "ui_handler", "render", "run"}

\* `x.lock().await` bound to a guard, the guard's drop, a guard that is a
\* temporary of one expression (it gets the lock and drops it with no
\* await in between), and an await that takes no lock.
Acq(l) == <<"acq", l>>
Rel(l) == <<"rel", l>>
Temp(l) == <<<<"temp", l>>>>
Await == <<"await", "">>

\* The lock operations of one pass through each task's loop body, in
\* program order, one sequence per path through the body, with session
\* recording on (without it the session_recorder operations are absent).
LockPaths(t) ==
    CASE t = "dispatcher" ->
           \* handle_file_events
           <<Temp("current_file") \o Temp("current_code")
               \o <<Acq("file_cache")>> \o Temp("is_recording")
               \o <<Acq("session_recorder"), Rel("session_recorder"), Await>>
               \o Temp("running") \o <<Rel("file_cache")>>>>
      [] t = "worker" ->
           \* handle_ai_requests, the Ok arm
           <<<<Await, Acq("ai_thoughts")>> \o Temp("is_recording")
               \o <<Acq("session_recorder"), Rel("session_recorder"),
                    Rel("ai_thoughts")>> \o Temp("running")>>
      [] t = "ui_handler" ->
           \* handle_ui_events: ToggleMode, ClearThoughts, Quit
           <<Temp("mode") \o Temp("is_recording")
               \o <<Acq("session_recorder"), Rel("session_recorder")>>
               \o Temp("running"),
             Temp("ai_thoughts") \o Temp("is_recording")
               \o <<Acq("session_recorder"), Rel("session_recorder")>>
               \o Temp("running"),
             Temp("running")>>
      [] t = "render" ->
           \* UI::run: is_running, then gather_app_data
           <<Temp("running") \o Temp("current_file") \o Temp("current_code")
               \o Temp("ai_thoughts") \o Temp("mode")
               \o Temp("is_recording")>>
      [] t = "run" ->
           \* App::run after select!
           <<Temp("running")
               \o <<Acq("session_recorder"), Rel("session_recorder")>>>>

LocksNew ==
    /\ holder = [l \in Locks |-> "free"]
    /\ lk_pc = [t \in Tasks |-> [path |-> 1, pos |-> 0]]

\* The operation task t stands before (pos 0: the top of its loop).
OpOf(t) ==
    IF lk_pc[t].pos = 0 THEN <<"top", "">>
    ELSE LockPaths(t)[lk_pc[t].path][lk_pc[t].pos]

\* lk_pc after task t has executed the operation it stands before.
Advanced(t) ==
    LET pc == lk_pc[t]
    IN [lk_pc EXCEPT ![t] =
          IF pc.pos = Len(LockPaths(t)[pc.path])
            THEN [path |-> 1, pos |-> 0]
            ELSE [path |-> pc.path, pos |-> pc.pos + 1]]

\* Mutant: dropping a guard does not unlock the mutex.
LockStepLeaks(t) ==
    /\ LET op == OpOf(t)
       IN CASE op[1] = "top" ->
                 /\ \E i \in 1..Len(LockPaths(t)) :
                       lk_pc' = [lk_pc EXCEPT ![t] = [path |-> i, pos |-> 1]]
                 /\ UNCHANGED holder
            [] op[1] = "acq" ->
                 /\ holder[op[2]] = "free"
                 /\ holder' = [holder EXCEPT ![op[2]] = t]
                 /\ lk_pc' = Advanced(t)
            [] op[1] = "rel" ->
                 /\ lk_pc' = Advanced(t)
                 /\ UNCHANGED holder
            [] op[1] = "temp" ->
                 /\ holder[op[2]] = "free"
                 /\ lk_pc' = Advanced(t)
                 /\ UNCHANGED holder
            [] op[1] = "await" ->
                 /\ lk_pc' = Advanced(t)
                 /\ UNCHANGED holder
    /\ UNCHANGED <<r_pc, r_file, r_code>>
    /\ UNCHANGED <<watcherVars, dispatchVars, workerVars, uiVars, recVars,
                   playerVars, listVars, file_q, ai_q, ai_thoughts, appended,
                   running, next_id>>

\* Task t executes the operation it stands before: at the top of the loop
\* it takes one path through the body; `lock().await` completes when the
\* mutex is free; a drop unlocks it.
LockStep(t) ==
    /\ LET op == OpOf(t)
       IN CASE op[1] = "top" ->
                 /\ \E i \in 1..Len(LockPaths(t)) :
                       lk_pc' = [lk_pc EXCEPT ![t] = [path |-> i, pos |-> 1]]
                 /\ UNCHANGED holder
            [] op[1] = "acq" ->
                 /\ holder[op[2]] = "free"
                 /\ holder' = [holder EXCEPT ![op[2]] = t]
                 /\ lk_pc' = Advanced(t)
            [] op[1] = "rel" ->
                 /\ holder' = [holder EXCEPT ![op[2]] = "free"]
                 /\ lk_pc' = Advanced(t)
            [] op[1] = "temp" ->
                 /\ holder[op[2]] = "free"
                 /\ lk_pc' = Advanced(t)
                 /\ UNCHANGED holder
            [] op[1] = "await" ->
                 /\ lk_pc' = Advanced(t)
                 /\ UNCHANGED holder
    /\ UNCHANGED <<r_pc, r_file, r_code>>
    /\ UNCHANGED <<watcherVars, dispatchVars, workerVars, uiVars, recVars,
                   playerVars, listVars, file_q, ai_q, ai_thoughts, appended,
                   running, next_id>>

\* ------------------------------------------------------------------------
\* Initial state: App::new() (rec = FALSE) or App::new_with_recording()
\* ------------------------------------------------------------------------
InitApp(rec) ==
    /\ now = 0
    /\ last_events = EmptyMap
    /\ w_pending = None
    /\ notify_log = <<>>
    /\ published = <<>>
    /\ w_running = TRUE
    /\ w_pc = "run"
    /\ file_q = <<>>
    /\ ai_q = <<>>
    /\ ui_q = <<>>
    /\ current_file = None
    /\ current_code = [len |-> 0]
    /\ file_cache = EmptyMap
    /\ cache_guard = FALSE
    /\ ai_thoughts = <<>>
    /\ mode = "SideBySide"
    /\ running = TRUE
    /\ is_recording = rec
    /\ session_recorder = IF rec THEN Some(NewRecorder) ELSE None
    /\ disk = IF rec THEN Some(Serialized(NewRecorder)) ELSE None
    /\ d_pc = "recv"
    /\ d_pending = None
    /\ a_pc = "recv"
    /\ a_req = None
    /\ a_attempt = 0
    /\ u_pc = "recv"
    /\ k_pc = "poll"
    /\ k_key = ""
    /\ k_count = 0
    /\ next_id = 1
    /\ consumed = <<>>
    /\ enqueued = <<>>
    /\ attempt_hist = <<>>
    /\ appended = <<>>
    /\ toggled = 0
    /\ PlayerNew
    /\ ListNew
    /\ GatherNew
    /\ LocksNew

Init == InitApp(FALSE) \/ InitApp(TRUE)

InitPlain == InitApp(FALSE)

InitRecording == InitApp(TRUE)

\* `coco start` or `coco record`.
InitEither == InitPlain \/ InitRecording

\* ------------------------------------------------------------------------
\* Inputs
\* ------------------------------------------------------------------------
SrcPath(stem) == Path("src/", stem, "rs")

\* Four source files, enough to overflow the file cache.
SrcStems == <<"a", "b", "c", "d">>

\* The source files notified so far and the next one not yet notified (the
\* files are interchangeable, so they are introduced in a fixed order).
KnownPaths ==
    LET seen == {notify_log[i].path : i \in 1..Len(notify_log)}
        n == Cardinality(seen)
    IN {SrcPath(SrcStems[i]) : i \in 1..Min(n + 1, Len(SrcStems))}

\* One source file and a path outside the allow-list.
WatchedPaths == {SrcPath("a"), Path("src/", ".hidden", "")}

\* Clock readings, among them the scenario 0, 50, 100, 400.
Instants == {0, 50, 100, 300, 400}

SmallFile == File(TRUE, 120, FALSE)
LargeFile == File(TRUE, SizeThreshold, FALSE)
HugeFile == File(TRUE, MaxFileSize + 1, FALSE)
BinaryFile == File(TRUE, 120, TRUE)
MissingFile == File(FALSE, 0, FALSE)

Notified(n) == Len(notify_log) < n

\* ------------------------------------------------------------------------
\* Specifications
\* ------------------------------------------------------------------------
\* The debouncer on its own clock, with the dispatcher draining the bus.
NextWatcher ==
    \/ \E p \in WatchedPaths, t \in Instants, f \in {SmallFile, MissingFile} :
          Notified(MaxBurst) /\ ProcessNotifyEvent(p, t, f)
    \/ HandleFileEvent("ok")

SpecWatcher == InitPlain /\ [][NextWatcher]_vars

\* A source file, a hidden file, a file in an ignored directory, one with
\* a skipped and one with an unsupported extension.
ProbedPaths ==
    {SrcPath("a"), Path("src/", ".hidden", ""), Path("target/debug/", "a", "rs"),
     Path("src/", "a", "log"), Path("src/", "a", "txt")}

\* The watcher notified of paths inside and outside the allow-list, the
\* file being small text, oversized or binary.
NextAllow ==
    \/ \E p \in ProbedPaths, f \in {SmallFile, HugeFile, BinaryFile} :
          Notified(MaxProbes) /\ ProcessNotifyEvent(p, now + DebounceDelay, f)
    \/ HandleFileEvent("ok")

SpecAllow == InitPlain /\ [][NextAllow]_vars

\* Watcher and dispatcher over several files, every notification outside
\* the debounce window of the last.
NextCache ==
    \/ \E p \in KnownPaths, f \in {SmallFile, LargeFile} :
          Notified(MaxChanges) /\ ProcessNotifyEvent(p, now + DebounceDelay, f)
    \/ HandleFileEvent("ok")

SpecCache == InitPlain /\ [][NextCache]_vars

\* Watcher, dispatcher and worker under backpressure: one file of either
\* size changed again and again until both queues fill; the worker only
\* makes room in the queue.
NextDispatch ==
    \/ \E f \in {SmallFile, LargeFile} :
          ProcessNotifyEvent(SrcPath("a"), now + DebounceDelay, f)
    \/ WatcherSend
    \/ HandleFileEvent("ok")
    \/ DispatchSend
    \/ WorkerRecv
    \/ WorkerAttemptOk(Response(0, Analyzing50), "ok")

SpecDispatch == InitPlain /\ [][NextDispatch]_vars

\* The recorded pipeline: file changes, requests answered or failing, a
\* few keys up to Quit, with session writes that succeed or fail; the
\* auto-save interval may have been set to 1 before the first event.
NextTap ==
    \/ Notified(MaxAdds)
          /\ ProcessNotifyEvent(SrcPath("a"), now + DebounceDelay, SmallFile)
    \/ \E io \in {"ok", "err"} : HandleFileEvent(io)
    \/ WorkerRecv
    \/ \E io \in {"ok", "err"} :
          WorkerAttemptOk(Response(0, Analyzing50), io)
    \/ \E io \in {"ok", "err"} : WorkerAttemptErr(io)
    \/ WorkerWake
    \/ \E key \in {"v", "q"} : k_count < MaxRequests /\ KeyPress(key)
    \/ KeyRecord
    \/ \E io \in {"ok", "err"} : HandleUiEvent(io)
    \/ next_id = 1 /\ RecSetAutoSaveInterval(1)

SpecTap == InitRecording /\ [][NextTap]_vars

\* The same pipeline started with or without session recording.
SpecTapDispatch == InitEither /\ [][NextDispatch]_vars

\* The pipeline from notification to findings: one small file changed
\* again and again, the reasoning service answering or failing.
Next ==
    \/ Notified(MaxRequests)
          /\ ProcessNotifyEvent(SrcPath("a"), now + DebounceDelay, SmallFile)
    \/ HandleFileEvent("ok")
    \/ WorkerRecv
    \/ \E resp \in Responses : WorkerAttemptOk(resp, "ok")
    \/ WorkerAttemptErr("ok")
    \/ WorkerWake
    \/ AddThought(Analyzing50)

Spec == InitPlain /\ [][Next]_vars

\* The worker task is scheduled and its awaits end: an attempt completes
\* one way or the other (the HTTP client has a timeout) and a sleep ends.
FairWorker ==
    /\ WF_vars((\E resp \in Responses : WorkerAttemptOk(resp, "ok"))
                 \/ WorkerAttemptErr("ok"))
    /\ WF_vars(WorkerWake)

SpecWorkerFair == InitPlain /\ [][Next]_vars /\ FairWorker

\* The input loop and the UI event handler.
NextUi ==
    \/ \E key \in {"v", "c", "q", "x"} : KeyPress(key)
    \/ KeyRecord
    \/ HandleUiEvent("ok")
    \/ Shutdown("ok")

SpecUi == InitPlain /\ [][NextUi]_vars

\* The session recorder driven through its public operations.
NextRecorder ==
    \/ \E type \in {"FileChanged", "UiAction"}, io \in {"ok", "err"} :
          RecRecordEvent(type, io)
    \/ \E io \in {"ok", "err"} : RecEndSession(io)
    \/ \E max \in 0..MaxMaxEvents : RecSetMaxEvents(max)
    \/ RecSetAutoSaveInterval(2)
    \/ \E k \in 1..2 : RecCompressOldEvents(k)
    \/ \E io \in {"ok", "err"} : RecSave(io)
    \/ \E io \in {"ok", "err"} : RecDrop(io)

SpecRecorder == InitRecording /\ [][NextRecorder]_vars

\* The recorder's persistence: recording, auto-save, explicit save, the end
\* of the session and the recorder's teardown, with writes that succeed,
\* fail, or fail leaving a truncated file.
NextPersist ==
    \/ \E type \in {"AiRequest", "UiAction"}, io \in IoOutcomes :
          RecRecordEvent(type, io)
    \/ \E stem \in {"a", "b"}, io \in IoOutcomes :
          RecRecordFileChange(SrcPath(stem), io)
    \/ \E n \in {0, 1, 2} : RecSetAutoSaveInterval(n)
    \/ \E io \in IoOutcomes : RecSave(io)
    \/ \E io \in IoOutcomes : RecEndSession(io)
    \/ \E io \in IoOutcomes : RecDrop(io)

SpecPersist == InitRecording /\ [][NextPersist]_vars

\* Recorded events to replay: offsets that are odd, below the default
\* maximum delay, between it and its double, and above its double.
PlayableEvents ==
    {PlayedEvent(1, "FileChanged", Some(<<"src", "a.rs">>), 5),
     PlayedEvent(2, "AiResponse", None, 1000),
     PlayedEvent(3, "UiAction", None, DefaultMaxDelayMs + 1000),
     PlayedEvent(4, "FileChanged", Some(<<"src", "b.rs">>),
                 2 * DefaultMaxDelayMs + 2000)}

\* Sessions of up to MaxPlayed events.
PlayableSessions ==
    UNION {[1..n -> PlayableEvents] : n \in 0..MaxPlayed}

\* Playback options: normal and double speed, with and without a maximum
\* delay, interactive or not.
PlaybackChoices ==
    {[DefaultOptions EXCEPT !.speed_multiplier = sp, !.max_delay_ms = md,
                            !.interactive = ia] :
        sp \in {Speed(1, 1), Speed(2, 1)},
        md \in {None, Some(DefaultMaxDelayMs)},
        ia \in BOOLEAN}

\* The replay of a loaded session.
NextPlayer ==
    \/ \E events \in PlayableSessions, o \in PlaybackChoices : Play(events, o)
    \/ PlayEvent
    \/ \E quit \in BOOLEAN : PlayerInput(quit)

SpecPlayer == InitPlain /\ [][NextPlayer]_vars

\* Files of the sessions directory: sessions that parse, started at
\* different or equal instants, a truncated one, an unreadable one and a
\* file that is no session.
DirectoryFiles(id) ==
    {SessionFile(id, "json", TRUE, t, Serialized(NewRecorder)) : t \in 1..2}
      \cup {SessionFile(id, "json", TRUE, 3, Truncated),
            SessionFile(id, "json", FALSE, 3, Serialized(NewRecorder)),
            SessionFile(id, "txt", TRUE, 3, Serialized(NewRecorder))}

\* The sessions directory filling up while sessions are listed and loaded.
NextList ==
    \/ \E f \in DirectoryFiles(Len(ls_dir) + 1) : FileAppears(f)
    \/ ListSessionsCall
    \/ \E id \in 1..MaxFiles : LoadSessionCall(id)

SpecList == InitPlain /\ [][NextList]_vars

\* Playback options that select events: a skip-list, an allow-list, a file
\* path filter and a window of event indices.
FilterChoices ==
    {[DefaultOptions EXCEPT !.skip_events = sk, !.only_events = on,
                            !.filter_file_path = fp,
                            !.start_from_event = st, !.end_at_event = en] :
        sk \in {{}, {"AiResponse"}},
        on \in {None, Some({"FileChanged", "AiResponse"})},
        fp \in {None, Some(<<"a.rs">>)},
        st \in {None, Some(1)},
        en \in {None, Some(1)}}

\* The non-interactive replay of a loaded session under selecting options.
NextFilter ==
    \/ \E events \in PlayableSessions, o \in FilterChoices : Play(events, o)
    \/ PlayEvent

SpecFilter == InitPlain /\ [][NextFilter]_vars

\* The whole pipeline up to and after the moment the running flag falls:
\* keys, file changes, a worker that may fail to start, and App::run.
NextShutdown ==
    \/ \E key \in {"v", "q"} : KeyPress(key)
    \/ KeyRecord
    \/ HandleUiEvent("ok")
    \/ UiLoopExit
    \/ Notified(MaxRequests)
          /\ ProcessNotifyEvent(SrcPath("a"), now + DebounceDelay, SmallFile)
    \/ HandleFileEvent("ok")
    \/ WorkerStartFails
    \/ WorkerRecv
    \/ WorkerAttemptOk(Response(0, Analyzing50), "ok")
    \/ Shutdown("ok")

\* Every spawned task that can take a step is scheduled eventually; keys,
\* file changes and a start-up failure are up to the environment.
FairShutdown ==
    /\ WF_vars(KeyRecord)
    /\ WF_vars(HandleUiEvent("ok"))
    /\ WF_vars(UiLoopExit)
    /\ WF_vars(HandleFileEvent("ok"))
    /\ WF_vars(WorkerRecv)
    /\ WF_vars(WorkerAttemptOk(Response(0, Analyzing50), "ok"))
    /\ WF_vars(Shutdown("ok"))

SpecShutdown == InitPlain /\ [][NextShutdown]_vars /\ FairShutdown

\* All three queues under load: one file changed again and again while
\* the mode key is pressed again and again, with consumers that may lag.
NextQueues ==
    \/ ProcessNotifyEvent(SrcPath("a"), now + DebounceDelay, SmallFile)
    \/ WatcherSend
    \/ HandleFileEvent("ok")
    \/ DispatchSend
    \/ WorkerRecv
    \/ WorkerAttemptOk(Response(0, Analyzing50), "ok")
    \/ KeyPress("v")
    \/ KeyRecord
    \/ HandleUiEvent("ok")

SpecQueues == InitPlain /\ [][NextQueues]_vars

\* The finding store filled by the worker and by add_thought while the
\* operator clears it and toggles the view.
NextClear ==
    \/ \E key \in {"c", "v"} : KeyPress(key)
    \/ KeyRecord
    \/ HandleUiEvent("ok")
    \/ Notified(MaxAdds)
          /\ ProcessNotifyEvent(SrcPath("a"), now + DebounceDelay, SmallFile)
    \/ HandleFileEvent("ok")
    \/ WorkerRecv
    \/ WorkerAttemptOk(Response(0, Analyzing50), "ok")
    \/ AddThought(Analyzing50)

SpecClear == InitPlain /\ [][NextClear]_vars

\* The worker parsing responses of one section of every shape, and
\* failing.
NextConfidence ==
    \/ Notified(MaxRequests)
          /\ ProcessNotifyEvent(SrcPath("a"), now + DebounceDelay, SmallFile)
    \/ HandleFileEvent("ok")
    \/ WorkerRecv
    \/ \E section \in Sections :
          WorkerAttemptOk(Response(1, SectionKind(section)), "ok")
    \/ WorkerAttemptOk(Response(0, Analyzing50), "ok")
    \/ WorkerAttemptErr("ok")
    \/ WorkerWake

SpecConfidence == InitPlain /\ [][NextConfidence]_vars

\* Two source files of different content changed in turn while the
\* render loop gathers what it draws.
NextRender ==
    \/ Notified(MaxBurst)
          /\ \/ ProcessNotifyEvent(SrcPath("a"), now + DebounceDelay, SmallFile)
             \/ ProcessNotifyEvent(SrcPath("b"), now + DebounceDelay,
                                   File(TRUE, 80, FALSE))
    \/ HandleFileEvent("ok")
    \/ GetCurrentFile
    \/ GetCurrentCode

SpecRender == InitPlain /\ [][NextRender]_vars

\* The tasks of App::run taking and dropping the guards of App's fields.
NextLocks == \E t \in Tasks : LockStep(t)

\* A task that stands before a lock or a drop gets there: dropping a guard
\* is the next thing its code does, and tokio's Mutex hands the lock to
\* its waiters in the order of their requests.  Nothing forces a task to
\* start a new pass or to come back from an await.
FairLocks ==
    \A t \in Tasks :
       SF_vars(OpOf(t)[1] \in {"acq", "temp", "rel"} /\ LockStep(t))

SpecLocks == InitPlain /\ [][NextLocks]_vars /\ FairLocks

\* The three recording tasks at work together: two source files of
\* different size changed in turn, requests answered, the mode key pressed.
NextSerial ==
    \/ Notified(MaxRequests)
          /\ \/ ProcessNotifyEvent(SrcPath("a"), now + DebounceDelay, SmallFile)
             \/ ProcessNotifyEvent(SrcPath("b"), now + DebounceDelay,
                                   File(TRUE, 80, FALSE))
    \/ HandleFileEvent("ok")
    \/ WorkerRecv
    \/ WorkerAttemptOk(Response(0, Analyzing50), "ok")
    \/ k_count < MaxAdds /\ KeyPress("v")
    \/ KeyRecord
    \/ HandleUiEvent("ok")

SpecSerial == InitRecording /\ [][NextSerial]_vars

\* ------------------------------------------------------------------------
\* Properties
\* ------------------------------------------------------------------------
\* Positions of the notifications for path p in notify_log.
LogOf(p) == {i \in 1..Len(notify_log) : notify_log[i].path = p}

Accepted(i) == notify_log[i].outcome = "emitted"

\* The accepted notifications for the same path before notification i.
AcceptedBefore(i) ==
    {j \in LogOf(notify_log[i].path) : j < i /\ Accepted(j)}

LastAcceptedBefore(i) ==
    CHOOSE j \in AcceptedBefore(i) : \A k \in AcceptedBefore(i) : k <= j

\* The clock readings of the notifications for p, in order.
TimesOf(p) ==
    LET sel == SelectSeq(notify_log, LAMBDA e : e.path = p)
    IN [i \in 1..Len(sel) |-> sel[i].t]

EmittedFor(p) == Cardinality({i \in LogOf(p) : Accepted(i)})

\* All notifications for p so far found the file readable.
Readable(p) == \A i \in LogOf(p) : notify_log[i].readable

\* The FileEvents the log says were emitted, in order.
EmittedEvents ==
    LET sel == SelectSeq(notify_log, LAMBDA e : e.outcome = "emitted")
    IN [i \in 1..Len(sel) |-> [path |-> sel[i].path, timestamp |-> sel[i].t]]

SentEvents ==
    LET all == published \o w_pending
    IN [i \in 1..Len(all) |->
          [path |-> all[i].path, timestamp |-> all[i].timestamp]]

\* C1: for a path on the allow-list whose file is readable at every
\* notification, a notification yields a FileEvent exactly when no FileEvent
\* was accepted for the path before or at least the debounce delay has
\* passed since the last accepted one (dropped notifications do not move
\* the window); the FileEvents handed to the bus are exactly the accepted
\* ones; a burst inside one window yields one FileEvent and the readings
\* 0, 50, 100, 400 yield two.
C1_Debounce ==
    /\ SentEvents = EmittedEvents
    /\ \A p \in WatchedPaths :
          (ShouldProcessFile(p) /\ Readable(p)) =>
             /\ \A i \in LogOf(p) :
                   Accepted(i) <=>
                      \/ AcceptedBefore(i) = {}
                      \/ notify_log[i].t - notify_log[LastAcceptedBefore(i)].t
                            >= DebounceDelay
             /\ (/\ LogOf(p) # {}
                 /\ \A i, j \in LogOf(p) :
                       notify_log[i].t - notify_log[j].t < DebounceDelay)
                   => EmittedFor(p) = 1
             /\ TimesOf(p) = <<0, 50, 100, 400>> => EmittedFor(p) = 2

\* The scenario of C1 has happened.
C1_Witness ==
    /\ TimesOf(SrcPath("a")) = <<0, 50, 100, 400>>
    /\ Readable(SrcPath("a"))
    /\ EmittedFor(SrcPath("a")) = 2
    /\ Len(published) = 2

\* The FileEvents whose dispatcher iteration has passed the size gate and
\* the send: all consumed ones but the one the dispatcher is sending.
Dispatched == IF d_pc = "send" THEN Len(consumed) - 1 ELSE Len(consumed)

BelowThreshold(i) == consumed[i].content.len < SizeThreshold

\* C2: no request is ever enqueued for a consumed FileEvent whose content
\* length is at or above the threshold, and exactly one request, with kind
\* Analyze, priority Medium and the event's content and path, is enqueued
\* for each one below it (the request of the event being dispatched is the
\* one the dispatcher holds while the queue is full).
C2_SizeGate ==
    /\ \A k \in 1..Len(enqueued) :
          LET r == enqueued[k]
          IN /\ r.id \in 1..Dispatched
             /\ BelowThreshold(r.id)
             /\ r.request_type = "Analyze"
             /\ r.priority = "Medium"
             /\ r.content = consumed[r.id].content
             /\ r.file_path = Some(consumed[r.id].path)
             /\ \A j \in 1..Len(enqueued) : j < k => enqueued[j].id < r.id
    /\ \A i \in 1..Dispatched :
          BelowThreshold(i) => \E k \in 1..Len(enqueued) : enqueued[k].id = i
    /\ d_pc = "send" =>
          /\ BelowThreshold(Len(consumed))
          /\ IsSome(d_pending)
          /\ Unwrap(d_pending).id = Len(consumed)
          /\ Unwrap(d_pending).content = consumed[Len(consumed)].content
    /\ d_pc # "send" => d_pending = None
    /\ \A k \in 1..Len(ai_q) : \E j \in 1..Len(enqueued) : ai_q[k] = enqueued[j]

\* A large event was skipped, small ones were enqueued, and the dispatcher
\* holds the request of another small one for the full queue.
C2_Witness ==
    /\ \E i \in 1..Dispatched : ~BelowThreshold(i)
    /\ Len(enqueued) >= AiQueueCap
    /\ d_pc = "send"

\* C3: the FindingStore never holds more than 5 findings.
C3_StoreBounded == Len(ai_thoughts) <= ThoughtLimit

\* The worker finishes a request in this step.
WorkerDelivers == a_pc = "attempt" /\ a_pc' \in {"recv", "done"}

\* C4: when the worker appends a batch that makes the store exceed 5, the
\* store afterwards holds exactly the 5 most recently appended findings in
\* their append order.
C4_KeepsMostRecent ==
    [][(/\ WorkerDelivers
        /\ Len(ai_thoughts) + (Len(appended') - Len(appended)) > ThoughtLimit)
         => /\ Len(ai_thoughts') = ThoughtLimit
            /\ ai_thoughts' = LastN(appended', ThoughtLimit)]_vars

\* The worker's last batch overflowed the store and nothing was added
\* since.
C4_Witness ==
    /\ attempt_hist # <<>>
    /\ LastHist.finished
    /\ Len(appended) > ThoughtLimit
    /\ appended[Len(appended)].req = LastHist.req
    /\ Len(ai_thoughts) = ThoughtLimit

\* The dispatcher consumes a FileEvent in this step.
DispatcherConsumes == consumed' # consumed

\* C5: the file cache never holds more than 3 entries, and a dispatcher
\* step whose insert takes it beyond 3 leaves it empty; any other step
\* leaves the cache with the event's entry added.
C5_CacheBounded ==
    /\ [](Cardinality(DOMAIN file_cache) \in 0..CacheLimit)
    /\ [][DispatcherConsumes =>
            LET ev == Head(file_q)
                grown == DOMAIN file_cache \cup {ev.path}
            IN IF Cardinality(grown) > CacheLimit
                 THEN DOMAIN file_cache' = {}
                 ELSE /\ DOMAIN file_cache' = grown
                      /\ file_cache'[ev.path] = ev.content
                      /\ \A k \in DOMAIN file_cache \ {ev.path} :
                            file_cache'[k] = file_cache[k]]_vars

\* A fourth distinct path has been dispatched and the cache is empty.
C5_Witness ==
    /\ Cardinality({consumed[i].path : i \in 1..Len(consumed)}) > CacheLimit
    /\ DOMAIN file_cache = {}
    /\ Len(consumed) = CacheLimit + 1

ThoughtsOf(req) == SelectSeq(appended, LAMBDA th : th.req = req)

AllFailed(h) == \A k \in 1..Len(h.outcomes) : h.outcomes[k] = "err"

\* C6: a request whose every attempt fails gets exactly 3 attempts and then
\* exactly one finding of kind Error with confidence 0, and is not queued
\* again; an attempt that succeeds is the request's last.
C6_RetryCap ==
    \A i \in 1..Len(attempt_hist) :
       LET h == attempt_hist[i]
       IN /\ Len(h.outcomes) <= 3
          /\ \A k \in 1..Len(h.outcomes) - 1 : h.outcomes[k] = "err"
          /\ (h.finished /\ AllFailed(h)) =>
                /\ Len(h.outcomes) = 3
                /\ Len(ThoughtsOf(h.req)) = 1
                /\ ThoughtsOf(h.req)[1].thought_type = "Error"
                /\ ThoughtsOf(h.req)[1].confidence = 0
          /\ (~h.finished /\ AllFailed(h)) => ThoughtsOf(h.req) = <<>>
          /\ (h.finished /\ ~AllFailed(h)) => Len(ThoughtsOf(h.req)) >= 1
          /\ h.finished => (i < Len(attempt_hist) \/ a_req = None)
          /\ \A k \in 1..Len(ai_q) : ai_q[k].id # h.req
          /\ \A j \in 1..Len(attempt_hist) :
                attempt_hist[j].req = h.req => j = i

\* A request has failed three times and is finished.
C6_Witness ==
    \E i \in 1..Len(attempt_hist) :
       /\ attempt_hist[i].finished
       /\ attempt_hist[i].outcomes = <<"err", "err", "err">>

\* The input loop submits the ToggleMode event of key 'v' in this step.
SubmitsToggle == k_pc = "poll" /\ k_pc' = "keyrec" /\ k_key' = "v"

\* C7: a ToggleMode event submitted while the UI bus holds its 10 events
\* is dropped: the submission returns (the input loop moves on), the queue
\* is left as it was and the view mode is not changed; and a full bus never
\* disables the submission.
C7_FullBusDrop ==
    /\ [][(SubmitsToggle /\ Len(ui_q) = UiBusCap)
            => (ui_q' = ui_q /\ mode' = mode /\ toggled' = toggled)]_vars
    /\ []((k_pc = "poll" /\ k_count < MaxKeys) => ENABLED KeyPress("v"))
    /\ [](Len(ui_q) <= UiBusCap)

\* The bus is full and the ToggleMode event just submitted is not on it.
C7_Witness ==
    /\ k_pc = "keyrec"
    /\ k_key = "v"
    /\ Len(ui_q) = UiBusCap
    /\ ui_q[Len(ui_q)].event_type # "ToggleMode"

ModeCycle == <<"SideBySide", "ThoughtsOnly", "Full", "Minimal">>

\* The handler consumes an event of the given type in this step.
Consumes(type) ==
    /\ ui_q # <<>>
    /\ ui_q' = Tail(ui_q)
    /\ Head(ui_q).event_type = type

\* C8: the view mode starts at SideBySide and is always the mode reached
\* by as many steps of the cycle SideBySide, ThoughtsOnly, Full, Minimal
\* as ToggleMode events were consumed (so four toggles return to the
\* start); only a step that consumes a ToggleMode event changes it.
C8_ModeCycle ==
    /\ [](mode = ModeCycle[(toggled % 4) + 1])
    /\ [][Consumes("ToggleMode") => toggled' = toggled + 1]_vars
    /\ [][mode' # mode => Consumes("ToggleMode")]_vars

\* Four toggles were consumed and the mode is back at the start.
C8_Witness == toggled = 4 /\ mode = "SideBySide"

\* C9: the number of session events never exceeds max_events.
C9_EventCap ==
    IsSome(session_recorder) => Len(Rec.events) <= Rec.max_events

\* An event is recorded in this step (record_event or end_session): the
\* session's last event is the one just created.
Records ==
    /\ IsSome(session_recorder)
    /\ IsSome(session_recorder')
    /\ next_id' = next_id + 1
    /\ Rec'.events # <<>>
    /\ Rec'.events[Len(Rec'.events)].id = next_id
    /\ Rec'.events[Len(Rec'.events)].event_type # "ConfigChange"

\* floor(0.8 * max)
FourFifths(max) == (8 * max) \div 10

HasMarker(events, removed) ==
    \E i \in 1..Len(events) :
       /\ events[i].event_type = "ConfigChange"
       /\ events[i].count = removed

SaveSucceeds ==
    /\ IsSome(session_recorder)
    /\ IsSome(session_recorder')
    /\ \/ RecSave("ok")
       \/ RecEndSession("ok")
       \/ /\ next_id' = next_id + 1
          /\ Rec'.events_since_save = 0
          /\ \/ \E type \in RecordedTypes : RecRecordEvent(type, "ok")
             \/ \E stem \in {"a", "b"} : RecRecordFileChange(SrcPath(stem), "ok")

ScaledOffset(offset, speed) == (offset * speed.den) \div speed.num

\* The delay the playback rule prescribes: the scaled offset, clamped to
\* the maximum delay when there is one.
PrescribedDelay(offset, o) ==
    IF o.max_delay_ms = None THEN ScaledOffset(offset, o.speed_multiplier)
    ELSE Min(ScaledOffset(offset, o.speed_multiplier), Unwrap(o.max_delay_ms))

\* C12: in non-interactive playback the delay slept before each rendered
\* event is min((eventTimestamp - sessionStart) / speedMultiplier,
\* maxDelayMs), the delay computed at speed 2.0 is half of the one computed
\* at speed 1.0, and no slept delay exceeds maxDelayMs.
C12_ReplayDelay ==
    ~pl_options.interactive =>
       \A i \in 1..Len(pl_log) :
          LET offset == pl_log[i].event.offset
          IN /\ pl_log[i].slept = PrescribedDelay(offset, pl_options)
             /\ 2 * TargetDelayMs(offset, Speed(2, 1))
                   = TargetDelayMs(offset, Speed(1, 1))
             /\ IsSome(pl_options.max_delay_ms) =>
                   pl_log[i].slept <= Unwrap(pl_options.max_delay_ms)

AllTasksExited ==
    /\ w_pc = "done"
    /\ d_pc = "done"
    /\ a_pc = "done"
    /\ u_pc = "done"
    /\ k_pc = "done"

\* C13: once the running flag is false, the watcher loop, the dispatcher,
\* the analysis worker, the UI event handler and the render loop all
\* eventually leave their loops, whether or not further items arrive.
C13_TasksExitOnShutdown == ~running ~> AllTasksExited

\* The ids of the requests the worker has dequeued, in order.
DequeuedIds == [i \in 1..Len(attempt_hist) |-> attempt_hist[i].req]

IdsOf(q) == [i \in 1..Len(q) |-> q[i].id]

\* The requests whose findings were appended, in append order.
BatchOrder ==
    LET sel == SelectSeq(appended, LAMBDA th : th.req # 0)
    IN [i \in 1..Len(sel) |-> sel[i].req]

\* C14: the dispatcher receives the FileEvents in the order the watcher
\* published them and the worker receives the requests in the order the
\* dispatcher enqueued them (the events received, followed by those still
\* queued, are the events sent); so the batches of findings are appended
\* in the order of the FileEvents that caused them.
C14_Fifo ==
    /\ consumed \o file_q = published
    /\ DequeuedIds \o IdsOf(ai_q) = IdsOf(enqueued)
    /\ \A i, j \in 1..Len(BatchOrder) :
          i < j =>
             /\ BatchOrder[i] <= BatchOrder[j]
             /\ consumed[BatchOrder[i]].timestamp
                   <= consumed[BatchOrder[j]].timestamp
    /\ \A i, j \in 1..Len(published) :
          i < j => published[i].timestamp < published[j].timestamp

\* Several events and requests are queued behind the ones received, and
\* the findings of two requests have been appended.
C14_Witness ==
    /\ Len(consumed) >= 3
    /\ Len(file_q) >= 2
    /\ Len(ai_q) >= 2
    /\ Len(BatchOrder) >= 2
    /\ BatchOrder[1] # BatchOrder[Len(BatchOrder)]

\* C15: the file bus never holds more than 5 items, the analysis queue
\* never more than 5 and the UI bus never more than 10; a producer that
\* found the file bus or the analysis queue full keeps its item until it
\* has put it on the queue (nothing is dropped); and the FileEvents the
\* dispatcher has consumed, followed by those still queued, are the ones
\* the watcher published, each once.
C15_BoundedBlocking ==
    /\ [](Len(file_q) <= 5 /\ Len(ai_q) <= 5 /\ Len(ui_q) <= 10)
    /\ [](SentEvents = EmittedEvents)
    /\ [](consumed \o file_q = published)
    /\ [](\A i, j \in 1..Len(published) :
             i # j => published[i] # published[j])
    /\ [][(IsSome(w_pending) /\ w_pending' # w_pending)
            => file_q' = Append(file_q, Unwrap(w_pending))]_vars
    /\ [][(IsSome(d_pending) /\ d_pending' # d_pending)
            => ai_q' = Append(ai_q, Unwrap(d_pending))]_vars
    /\ [](IdsOf(enqueued) \o IdsOf(d_pending)
             = [i \in 1..Len(consumed) |-> i])

\* The watcher is blocked on a full file bus while the UI bus is full and
\* the dispatcher has consumed an event.
C15_Witness ==
    /\ Len(file_q) = FileBusCap
    /\ IsSome(w_pending)
    /\ Len(ui_q) = UiBusCap
    /\ Len(consumed) >= 1

\* A closed session: ended_at is set and the last event is SessionEnded.
Closed(session) ==
    /\ IsSome(session.ended_at)
    /\ session.events # <<>>
    /\ session.events[Len(session.events)].event_type = "SessionEnded"

EndedCount(events) ==
    Cardinality({i \in 1..Len(events) : events[i].event_type = "SessionEnded"})

\* C16: after end_session, and after the teardown of a recorder that was
\* not ended, the session has ended_at set, its last event is SessionEnded
\* and that closed session is the one on disk (the final write
\* succeeding); the teardown of a recorder that was ended adds no second
\* SessionEnded event and writes nothing.
C16_ClosedOnEnd ==
    /\ [][(IsSome(session_recorder) /\ RecEndSession("ok"))
            => /\ Closed(SessionOf(Rec'))
               /\ LoadSession(disk') = Some(SessionOf(Rec'))
               /\ Rec.ended_at = None => EndedCount(Rec'.events) = 1]_vars
    /\ [][(IsSome(session_recorder) /\ Rec.ended_at = None /\ RecDrop("ok"))
            => /\ IsSome(LoadSession(disk'))
               /\ Closed(Unwrap(LoadSession(disk')))
               /\ EndedCount(Unwrap(LoadSession(disk')).events) = 1
               /\ \A i \in 1..Len(Unwrap(LoadSession(disk')).events) - 1 :
                     \E j \in 1..Len(Rec.events) :
                        Rec.events[j] = Unwrap(LoadSession(disk')).events[i]]_vars
    /\ [][(IsSome(session_recorder) /\ Rec.ended_at # None
            /\ \E io \in IoOutcomes : RecDrop(io))
            => (disk' = disk /\ next_id' = next_id)]_vars

\* A recorder with recorded events is gone and the session on disk is
\* closed, with one SessionEnded event at its end.
C16_Witness ==
    /\ session_recorder = None
    /\ IsSome(LoadSession(disk))
    /\ Closed(Unwrap(LoadSession(disk)))
    /\ Len(Unwrap(LoadSession(disk)).events) >= 3
    /\ EndedCount(Unwrap(LoadSession(disk)).events) = 1

\* An event is recorded through record_event in this step, a write that
\* it triggers ending as `io`.
RecordStep(io) ==
    /\ IsSome(session_recorder)
    /\ IsSome(session_recorder')
    /\ \/ \E type \in RecordedTypes : RecRecordEvent(type, io)
       \/ \E stem \in {"a", "b"} : RecRecordFileChange(SrcPath(stem), io)

\* C17 as claimed: the session is persisted on every auto_save_interval-th
\* event recorded since the last successful save: after every record_event
\* whose save succeeds the counter of unsaved events is below the interval,
\* and every successful save resets it to 0.
C17_CounterBelowInterval ==
    /\ [][RecordStep("ok")
            => Rec'.events_since_save < Rec'.auto_save_interval]_vars
    /\ [][SaveSucceeds => Rec'.events_since_save = 0]_vars

\* C17 as amended: a record_event that brings the counter of unsaved
\* events to the interval or beyond saves the session and, the write
\* succeeding, leaves the counter at 0 and the session on disk; one that
\* leaves the counter below the interval writes nothing; a failed write
\* leaves the counter as it is; so after a record_event whose save
\* succeeds the counter is below the interval when the interval is at
\* least 1, and equal to it (0) when the interval is 0.
C17_AutoSave ==
    /\ [][RecordStep("ok") =>
            IF Rec.events_since_save + 1 >= Rec.auto_save_interval
              THEN /\ Rec'.events_since_save = 0
                   /\ LoadSession(disk') = Some(SessionOf(Rec'))
              ELSE /\ Rec'.events_since_save = Rec.events_since_save + 1
                   /\ disk' = disk]_vars
    /\ [][RecordStep("err") =>
            /\ Rec'.events_since_save = Rec.events_since_save + 1
            /\ disk' = disk]_vars
    /\ [][(RecordStep("ok") /\ Rec.auto_save_interval >= 1)
            => Rec'.events_since_save < Rec'.auto_save_interval]_vars
    /\ [][SaveSucceeds => Rec'.events_since_save = 0]_vars

\* The second event since the last save has just been recorded with the
\* interval at 2, and the session was saved with it.
C17_Witness ==
    /\ IsSome(session_recorder)
    /\ Rec.auto_save_interval = 2
    /\ Rec.events_since_save = 0
    /\ Rec.ended_at = None
    /\ Len(Rec.events) >= 3
    /\ Rec.events[Len(Rec.events)].event_type = "AiRequest"
    /\ LoadSession(disk) = Some(SessionOf(Rec))

\* The analysis worker returned its start-up error before receiving any
\* request.
WorkerFailedAtStart == a_pc = "done" /\ attempt_hist = <<>>

\* C18: an error in one pipeline stage never terminates another stage:
\* the analysis worker having stopped at start-up and the user not having
\* quit, the running flag stays true and the dispatcher and the UI event
\* handler stay in their loops.
C18_StageIsolation ==
    [][(WorkerFailedAtStart /\ running /\ k_pc # "done")
         => (running' /\ d_pc' # "done" /\ u_pc' # "done")]_vars

\* The i-th dequeued request was given up: its last attempt failed.
Exhausted(i) ==
    /\ attempt_hist[i].finished
    /\ attempt_hist[i].outcomes[Len(attempt_hist[i].outcomes)] = "err"

\* The worker gives up the request in hand in this step.
GivesUp ==
    /\ a_pc = "attempt"
    /\ Len(attempt_hist') = Len(attempt_hist)
    /\ ~LastHist.finished
    /\ Exhausted(Len(attempt_hist))'

\* C19: a request that exhausts its retries does not stop the worker
\* loop: while the running flag is true the worker, having handled the
\* failed request, is back at its queue with the queue untouched, never
\* leaves its loop, and dequeues whatever request is waiting.
C19_WorkerSurvivesFailure ==
    /\ [][(GivesUp /\ running) => (a_pc' = "recv" /\ ai_q' = ai_q)]_vars
    /\ [](running => a_pc # "done")
    /\ []((a_pc = "recv" /\ ai_q # <<>>) => ENABLED WorkerRecv)

\* The worker gave up the first request and then dequeued and finished
\* the second.
C19_Witness ==
    /\ Len(attempt_hist) = 2
    /\ Exhausted(1)
    /\ Len(attempt_hist[1].outcomes) = MaxRetries
    /\ attempt_hist[2].finished
    /\ running

\* The findings appended for request id, in append order.
FindingsOf(id) == SelectSeq(appended, LAMBDA th : th.req = id)

\* The i-th dequeued request has been handled and the store received a
\* finding for it.
Answered(i) ==
    /\ Len(attempt_hist) >= i
    /\ attempt_hist[i].finished
    /\ FindingsOf(attempt_hist[i].req) # <<>>

\* The worker finishes the request in hand in this step.
Finishes ==
    /\ a_pc = "attempt"
    /\ Len(attempt_hist') = Len(attempt_hist)
    /\ ~LastHist.finished
    /\ LastHist'.finished

\* C20: every request the worker dequeues leads to at least one finding
\* appended to the store: the step that finishes a request appends its
\* findings, which are then the newest of the store; on success with a
\* response without sections that is the single generic Analyzing finding
\* with confidence 0.5, on failure the single Error finding; and every
\* dequeued request is eventually answered.
C20_EveryRequestAnswered ==
    /\ [][Finishes =>
            /\ Len(appended') > Len(appended)
            /\ \A i \in (Len(appended) + 1)..Len(appended') :
                   appended'[i].req = LastHist.req
            /\ ai_thoughts' # <<>>
            /\ ai_thoughts'[Len(ai_thoughts')] = appended'[Len(appended')]
            /\ GivesUp =>
                  /\ Len(appended') = Len(appended) + 1
                  /\ appended'[Len(appended')].thought_type = "Error"]_vars
    /\ [][WorkerAttemptOk(Response(0, Analyzing50), "ok") =>
            /\ Len(appended') = Len(appended) + 1
            /\ appended'[Len(appended')].thought_type = "Analyzing"
            /\ appended'[Len(appended')].confidence = 50]_vars
    /\ [](\A i \in 1..Len(attempt_hist) :
             attempt_hist[i].finished => Answered(i))
    /\ \A i \in 1..MaxRequests : (Len(attempt_hist) >= i) ~> Answered(i)

\* One request was given up and left its Error finding, another was
\* answered without sections and left the generic finding.
C20_Witness ==
    /\ Len(attempt_hist) = 2
    /\ Exhausted(1)
    /\ Len(FindingsOf(attempt_hist[1].req)) = 1
    /\ FindingsOf(attempt_hist[1].req)[1].thought_type = "Error"
    /\ Answered(2)
    /\ attempt_hist[2].outcomes = <<"ok">>
    /\ Len(FindingsOf(attempt_hist[2].req)) = 1
    /\ FindingsOf(attempt_hist[2].req)[1].thought_type = "Analyzing"
    /\ FindingsOf(attempt_hist[2].req)[1].confidence = 50

\* C21: once end_session has completed the Session is immutable: no
\* later operation on the recorder changes its event list, its ended_at
\* or its metadata.
C21_ImmutableAfterEnd ==
    [][(IsSome(session_recorder) /\ IsSome(session_recorder')
          /\ IsSome(Rec.ended_at))
         => SessionOf(Rec') = SessionOf(Rec)]_vars

\* The events of a session that the options select, in recorded order:
\* not in the skip-list, in the allow-list and matching the path filter
\* when these are set, and positioned (from 0) at or after
\* start_from_event and before end_at_event.
Selected(events, o) ==
    LET keep(i) ==
          /\ PassesFilter(o, events[i])
          /\ IsSome(o.start_from_event) => i - 1 >= Unwrap(o.start_from_event)
          /\ IsSome(o.end_at_event) => i - 1 < Unwrap(o.end_at_event)
        idx == SelectSeq([i \in 1..Len(events) |-> i], keep)
    IN [k \in 1..Len(idx) |-> events[idx[k]]]

\* The events rendered so far, in the order of rendering.
Rendered == [i \in 1..Len(pl_log) |-> pl_log[i].event]

\* C22: play() renders exactly the session events that pass the skip-list,
\* the allow-list and the file path filter and lie inside the start/end
\* index window, in their recorded order.
C22_PlaysSelected ==
    pl_pc = "completed" => Rendered = Selected(pl_session, pl_options)

\* C23: the player moves Idle -> Playing -> Completed or Aborted: in
\* interactive mode it never sleeps for a timing delay and renders the
\* next event only after an advance signal, and Completed, as distinct
\* from Aborted, is reached only after the last selected event was
\* rendered.
C23_PlayerStates ==
    /\ pl_pc \in {"idle", "playing", "waiting", "completed", "aborted"}
    /\ pl_options.interactive =>
          /\ \A i \in 1..Len(pl_log) : pl_log[i].slept = 0
          /\ Len(pl_log) <= pl_index + 1
    /\ pl_pc = "completed" => Rendered = pl_events_to_play

\* The FileChanged events of an event list as <<path, size>>, in order.
FileChangesOf(events) ==
    LET sel == SelectSeq(events, LAMBDA e : e.event_type = "FileChanged")
    IN [i \in 1..Len(sel) |-> <<sel[i].path, sel[i].size>>]

\* The FileEvents the dispatcher has received as <<path, byte size>>.
ConsumedChanges ==
    [i \in 1..Len(consumed) |->
        <<Some(consumed[i].path), consumed[i].content.len>>]

C25_LocksHeldBriefly == d_pc \in {"recv", "send"} => ~cache_guard

\* The notification is for a path or a content outside the allow-list.
OutsideAllowList(p, f) ==
    \/ ~ShouldProcessFile(p)
    \/ f.len > MaxFileSize
    \/ f.binary

\* C26: a notification for a path outside the allow-list (hidden file,
\* ignored directory, skipped or unsupported extension, oversized or
\* binary content) produces no FileEvent and leaves the debounce map
\* unchanged.
C26_DroppedSilently ==
    [][\A p \in ProbedPaths, f \in {SmallFile, HugeFile, BinaryFile} :
          (OutsideAllowList(p, f)
             /\ ProcessNotifyEvent(p, now + DebounceDelay, f))
          => /\ published' = published
             /\ w_pending' = None
             /\ file_q' = file_q
             /\ last_events' = last_events]_vars

\* The entry is a session file that can be read and holds a well-formed
\* session document.
ParsesAsSession(f) == f.ext = "json" /\ f.readable /\ f.doc.valid

\* C27: list_sessions returns exactly the sessions whose file parses, each
\* once, sorted by start time newest first; malformed and unreadable
\* files do not fail the listing and do not change what is returned for
\* the others; load_session of a malformed or unreadable session returns
\* an error and of a well-formed one its session.
C27_ListSkipsMalformed ==
    /\ [][ListSessionsCall =>
            LET out == Unwrap(ls_out')
                good == {i \in 1..Len(ls_dir) : ParsesAsSession(ls_dir[i])}
            IN /\ IsSome(ls_out')
               /\ Len(out) = Cardinality(good)
               /\ {out[i].id : i \in 1..Len(out)} = {ls_dir[i].id : i \in good}
               /\ \A i \in 1..Len(out) :
                     /\ out[i].started_at = Unwrap(FileOf(ls_dir, out[i].id)).started_at
                     /\ Some(out[i].session) =
                           Deserialized(Unwrap(FileOf(ls_dir, out[i].id)).doc)
               /\ \A i, j \in 1..Len(out) :
                     i < j => out[i].started_at >= out[j].started_at
               /\ out = ListSessions(SelectSeq(ls_dir, ParsesAsSession))]_vars
    /\ [][\A id \in 1..MaxFiles : LoadSessionCall(id) =>
            LET res == Unwrap(ls_loaded').result
            IN IF \E i \in 1..Len(ls_dir) :
                     ls_dir[i].id = id /\ ParsesAsSession(ls_dir[i])
                 THEN IsSome(res) /\ Unwrap(res).id = id
                 ELSE res = None]_vars

\* A directory with a truncated session between two good ones was listed:
\* the two sessions came back, the later-started one first although it is
\* the later entry, and loading the truncated one failed.
C27_Witness ==
    /\ Len(ls_dir) = 3
    /\ ls_dir[2].doc = Truncated
    /\ IsSome(ls_out)
    /\ Len(Unwrap(ls_out)) = 2
    /\ Unwrap(ls_out)[1].id = 3
    /\ Unwrap(ls_out)[2].id = 1
    /\ Unwrap(ls_out)[1].started_at > Unwrap(ls_out)[2].started_at
    /\ ls_loaded = Some([id |-> 2, result |-> None])

\* The number of events of one type in an event list.
CountOf(events, type) ==
    Cardinality({i \in 1..Len(events) : events[i].event_type = type})

\* C29: after any sequence of recorded events total_file_changes is the
\* number of FileChanged events recorded, total_ai_requests the number of
\* AiRequest events recorded, and files_analyzed holds, without
\* duplicates, every path for which a FileChanged event was recorded,
\* those recorded by the dispatcher included.
C29_MetadataCounters ==
    IsSome(session_recorder) =>
       /\ Rec.total_file_changes = CountOf(Rec.events, "FileChanged")
       /\ Rec.total_ai_requests = CountOf(Rec.events, "AiRequest")
       /\ \A i, j \in 1..Len(Rec.files_analyzed) :
             Rec.files_analyzed[i] = Rec.files_analyzed[j] => i = j
       /\ {Some(Rec.files_analyzed[i]) : i \in 1..Len(Rec.files_analyzed)}
             = {Rec.events[i].path :
                  i \in {k \in 1..Len(Rec.events) :
                           Rec.events[k].event_type = "FileChanged"}}

\* A pipeline task passes its recording block in this step and the write
\* that the block triggers ends as `io`.
TapStep(io) ==
    \/ HandleFileEvent(io)
    \/ WorkerAttemptOk(Response(0, Analyzing50), io)
    \/ a_pc = "attempt" /\ ~RetryAfter(a_attempt) /\ WorkerAttemptErr(io)
    \/ ui_q # <<>> /\ Head(ui_q).event_type # "Quit" /\ HandleUiEvent(io)

ConsumesItem ==
    \/ file_q # <<>> /\ file_q' = Tail(file_q)
    \/ Finishes
    \/ ui_q # <<>> /\ ui_q' = Tail(ui_q) /\ u_pc = "recv"

\* C30: while recording is active every item consumed from the
\* FileEventBus, the AnalysisQueue and the UiEventBus results in a
\* SessionEvent appended to the session: each dispatched FileEvent, each
\* request handled by the worker, also when it fails, and each UI event
\* handled, Quit included.
C30_EveryItemRecorded ==
    [][(is_recording /\ ConsumesItem) =>
          Len(Rec'.events) = Len(Rec.events) + 1]_vars

\* C31: save is an atomic whole-document write: after a save, also one
\* interrupted part-way, a reader of the session file finds either the
\* complete previous document or the complete new one, never an empty or
\* partially written one.
C31_AtomicSave ==
    [][IsSome(session_recorder) =>
          \/ disk' = disk
          \/ /\ IsSome(LoadSession(disk'))
             /\ \/ IsSome(session_recorder')
                      /\ LoadSession(disk') = Some(SessionOf(Rec'))
                \/ session_recorder' = None]_vars

\* C32: every change notified for an allowed path whose file was readable
\* at each of its notifications is covered by a
\* FileEvent for that path emitted at or after the notification, once the
\* quiet period of the burst has elapsed; the content of the last change
\* of a burst reaches the dispatcher.
C32_BurstCovered ==
    \A i \in 1..Len(notify_log) :
        LET n == notify_log[i]
        IN (/\ ShouldProcessFile(n.path)
            /\ \A k \in 1..Len(notify_log) :
                  notify_log[k].path = n.path => notify_log[k].readable
            /\ w_pending = None
            /\ now - n.t >= DebounceDelay)
           => \E j \in 1..Len(published) :
                 /\ published[j].path = n.path
                 /\ published[j].timestamp >= n.t

\* C33: a failed read produces no FileEvent and leaves the debounce map
\* alone: every entry of last_events is the instant of a FileEvent emitted
\* for that path, and a notification is debounced only by an emission for
\* its path less than DebounceDelay before it.
C33_FailedReadKeepsMap ==
    /\ \A p \in DOMAIN last_events :
          \E i \in 1..Len(notify_log) :
             /\ notify_log[i].path = p
             /\ notify_log[i].t = last_events[p]
             /\ notify_log[i].outcome = "emitted"
    /\ \A j \in 1..Len(notify_log) :
          notify_log[j].outcome = "debounced" =>
             \E i \in 1..(j - 1) :
                /\ notify_log[i].path = notify_log[j].path
                /\ notify_log[i].outcome = "emitted"
                /\ notify_log[j].t - notify_log[i].t < DebounceDelay

\* C34: the delay slept after the k-th failed attempt (k = 1, 2) is
\* 1 s * 2^(k-1), that is 1000 ms then 2000 ms; no sleep follows the third
\* failed attempt and none follows a successful attempt.
C34_Backoff ==
    /\ \A i \in 1..Len(attempt_hist) :
          LET h == attempt_hist[i]
              failed == {k \in 1..Len(h.outcomes) : h.outcomes[k] = "err"}
          IN /\ Len(h.sleeps) = Min(Cardinality(failed), 2)
             /\ \A k \in 1..Len(h.sleeps) :
                   /\ h.outcomes[k] = "err"
                   /\ h.sleeps[k] = 1000 * (2 ^ (k - 1))
             /\ Len(h.sleeps) >= 1 => h.sleeps[1] = 1000
             /\ Len(h.sleeps) >= 2 => h.sleeps[2] = 2000
    /\ a_pc = "sleep" =>
          /\ LastHist.outcomes[Len(LastHist.outcomes)] = "err"
          /\ Len(LastHist.outcomes) < 3
          /\ ~LastHist.finished

\* A request failed three times: two sleeps were taken, none after the
\* third failure.
C34_Witness ==
    \E i \in 1..Len(attempt_hist) :
       /\ attempt_hist[i].outcomes = <<"err", "err", "err">>
       /\ attempt_hist[i].sleeps = <<1000, 2000>>
       /\ attempt_hist[i].finished
       /\ a_pc # "sleep"

\* The handler takes a ClearThoughts event off the UI bus in this step.
ConsumesClear ==
    /\ u_pc = "recv"
    /\ ui_q # <<>>
    /\ Head(ui_q).event_type = "ClearThoughts"
    /\ ui_q' = Tail(ui_q)

\* C35: when the UI event handler consumes a ClearThoughts event the
\* finding store becomes empty, and the view mode, the file cache, the
\* current file and the running flag are left unchanged.
C35_ClearThoughts ==
    [][ConsumesClear =>
          /\ ai_thoughts' = <<>>
          /\ mode' = mode
          /\ file_cache' = file_cache
          /\ current_file' = current_file
          /\ current_code' = current_code
          /\ running' = running]_vars

\* Findings were stored and the store is empty again, with a file in the
\* cache and the view toggled away from its initial mode.
C35_Witness ==
    /\ appended # <<>>
    /\ ai_thoughts = <<>>
    /\ IsSome(current_file)
    /\ file_cache # EmptyMap
    /\ mode # "SideBySide"
    /\ running

\* The section contains the word, in any case.
Contains(section, word) == \E w \in section.tokens : ToLowercase(w) = word

\* 0.5, plus 0.2 for should/must, minus 0.2 for might/maybe/possibly, plus
\* 0.1 for a code block, plus 0.1 for a length over 200, in hundredths.
StatedConfidence(section) ==
    50 + (IF Contains(section, "should") \/ Contains(section, "must")
            THEN 20 ELSE 0)
       - (IF \/ Contains(section, "might")
             \/ Contains(section, "maybe")
             \/ Contains(section, "possibly")
            THEN 20 ELSE 0)
       + (IF Contains(section, "fence") THEN 10 ELSE 0)
       + (IF section.len > 200 THEN 10 ELSE 0)

\* C36: the finding made from a response section has the confidence 0.5
\* +0.2 (should/must) -0.2 (might/maybe/possibly) +0.1 (code block) +0.1
\* (length over 200), clamped to [0,1]; every finding in the store has a
\* confidence within [0,1].
C36_Confidence ==
    LET stated(section) ==
           LET c == StatedConfidence(section)
           IN IF c < 0 THEN 0 ELSE IF c > 100 THEN 100 ELSE c
    IN /\ \A section \in Sections :
             SectionKind(section).confidence = stated(section)
       /\ \A i \in 1..Len(ai_thoughts) :
             /\ ai_thoughts[i].confidence \in 0..100
             /\ ai_thoughts[i].thought_type = "Analyzing" =>
                   \E section \in Sections :
                      ai_thoughts[i].confidence = stated(section)

\* The store holds a finding made from a section with every raising
\* feature and one made from a hedged section.
C36_Witness ==
    \E i, j \in 1..Len(ai_thoughts) :
       /\ ai_thoughts[i].confidence = 90
       /\ ai_thoughts[j].confidence = 30

\* C37: replay is read-only: once a session has been handed to the player,
\* no step of play(), under any options and any operator input, changes
\* the player's session, and no step writes the session file.
C37_ReplayReadOnly ==
    [][/\ pl_pc # "idle" => pl_session' = pl_session
       /\ pl_pc = "idle" =>
             /\ pl_session' \in PlayableSessions
             /\ \A i \in 1..Len(pl_events_to_play') :
                   \E k \in 1..Len(pl_session') :
                      pl_events_to_play'[i] = pl_session'[k]
       /\ disk' = disk]_vars

\* A session of MaxPlayed events was replayed interactively and playback is
\* over, after the first event or after the last.
C37_Witness ==
    /\ pl_pc = "completed"
    /\ Len(pl_session) = MaxPlayed
    /\ Len(pl_log) \in {1, MaxPlayed}
    /\ pl_options.interactive

\* The path and the content the render loop holds are those of one
\* FileEvent the dispatcher consumed.
GatheredFromOneEvent ==
    \E i \in 1..Len(consumed) :
       /\ r_file = Some(consumed[i].path)
       /\ r_code = consumed[i].content

\* C39: whenever the render loop has read a current file and the current
\* content, the two values belong to the same FileEvent.
C39_NoTearing == (r_pc = "file" /\ IsSome(r_file)) => GatheredFromOneEvent

\* Task t stands before the acquisition of a lock that another task or t
\* itself holds.
Blocked(t) ==
    /\ OpOf(t)[1] \in {"acq", "temp"}
    /\ holder[OpOf(t)[2]] # "free"

\* A set of tasks each of which waits for a lock held inside the set.
WaitCycle ==
    \E S \in SUBSET Tasks :
       /\ S # {}
       /\ \A t \in S : Blocked(t) /\ holder[OpOf(t)[2]] \in S

\* The order of the locks: the guards that live across other
\* acquisitions come first.
LockRank(l) == IF l \in {"file_cache", "ai_thoughts"} THEN 1 ELSE 2

\* C38: no interleaving of the dispatcher, the analysis worker, the UI
\* event handler, the render loop and App::run reaches a cycle of tasks
\* waiting for each other's locks; a task takes a lock only while it holds
\* locks of a lower rank; and no task stays before a lock acquisition
\* for ever.
C38_NoLockCycle ==
    /\ [](~WaitCycle)
    /\ [](\A t \in Tasks : \A l \in Locks :
            (OpOf(t)[1] \in {"acq", "temp"} /\ holder[l] = t) =>
               LockRank(l) < LockRank(OpOf(t)[2]))
    /\ \A t \in Tasks : []<>(OpOf(t)[1] \notin {"acq", "temp"})

\* The dispatcher, holding the guard of file_cache, waits for the session
\* recorder, which the worker has locked while it holds ai_thoughts; the
\* UI event handler waits for ai_thoughts.
C38_Witness ==
    /\ holder["file_cache"] = "dispatcher"
    /\ holder["ai_thoughts"] = "worker"
    /\ holder["session_recorder"] = "worker"
    /\ OpOf("dispatcher") = Acq("session_recorder")
    /\ OpOf("ui_handler") = <<"temp", "ai_thoughts">>

\* The record calls made so far: one per FileEvent the dispatcher received,
\* one per request the worker finished, one per UI event the handler took
\* off the bus (the key 'v' puts two events on it).
RecordCalls ==
    Len(consumed)
      + Cardinality({i \in 1..Len(attempt_hist) : attempt_hist[i].finished})
      + (2 * k_count - (IF k_pc = "keyrec" THEN 1 ELSE 0) - Len(ui_q))

\* C40: the record_event calls of the dispatcher, the analysis worker and
\* the UI event handler are serialized: after any interleaving the session
\* holds, after its SessionStarted event, one event per record call, none
\* lost and none twice, and its FileChanged events are in the order in
\* which the dispatcher consumed the FileEvents.
C40_RecordSerialized ==
    /\ IsSome(session_recorder)
    /\ Len(Rec.events) = 1 + RecordCalls
    /\ \A i, j \in 1..Len(Rec.events) :
          i < j => Rec.events[i].id < Rec.events[j].id
    /\ LET changes == SelectSeq(Rec.events,
                                LAMBDA e : e.event_type = "FileChanged")
       IN /\ Len(changes) = Len(consumed)
          /\ \A i \in 1..Len(changes) :
                /\ changes[i].path = Some(consumed[i].path)
                /\ changes[i].size = consumed[i].content.len

\* Both files were changed, both requests answered and both UI events
\* handled, with the events of the three tasks interleaved in the session.
C40_Witness ==
    /\ Len(consumed) = 2
    /\ consumed[1].path # consumed[2].path
    /\ Len(Rec.events) = 7
    /\ Rec.events[2].event_type = "FileChanged"
    /\ Rec.events[3].event_type = "UiAction"
    /\ Rec.events[4].event_type = "AiResponse"
    /\ Rec.events[5].event_type = "FileChanged"

====
